---- MODULE Spec2Model ----
(***************************************************************************)
(* Biblioteca (Alexa skill "Actividad-Biblioteca"): a personal library of  *)
(* books and loans kept per user in a persistent record, with an in-memory *)
(* TTL cache in front of it.                                               *)
(*                                                                         *)
(* The repository holds two code bases over the same record layout:        *)
(*   - lambda_function.py, the skill entry point with its own handlers,    *)
(*     DatabaseManager and _CACHE;                                         *)
(*   - handlers/ + services/ + repositories/ + adapters/, the layered      *)
(*     version (BookService, LoanService, BookRepository, LoanRepository,  *)
(*     MemoryCacheService, ServiceFactory).                                *)
(* Text values are sequences of one-character strings so that lower(),     *)
(* strip(), "in" and slicing are computed as Python computes them.         *)
(* Time is the POSIX timestamp in seconds returned by datetime.now().      *)
(***************************************************************************)
EXTENDS Integers, Sequences, FiniteSets, TLC

VARIABLES
    store,      \* persistent attributes per user: <<>> (none) or <<record>>
    cache,      \* lambda_function._CACHE: per user <<>> or <<[data, expire_at]>>
    mcache,     \* MemoryCacheService._cache: key -> <<>> or <<[data, expire_at]>>
    session,    \* session attributes of the current Alexa session
    now,        \* datetime.now()
    nextId,     \* source of fresh identifiers (uuid4)
    backend,    \* how the repositories' private load/save hooks are built
    resp        \* what the last operation returned

vars == <<store, cache, mcache, session, now, nextId, backend, resp>>

----------------------------------------------------------------------------
(* Bounds of the exploration *)

MaxBooks == 2
MaxIds == 3

Users == {"u1"}

----------------------------------------------------------------------------
(* Configuration values of the program *)

CACHE_TTL_SECONDS == 86400
LIBROS_POR_PAGINA == 10
DIAS_PRESTAMO == 7

\* timedelta(days=n) in seconds
Dias(n) == n * 86400

----------------------------------------------------------------------------
(* Text *)

LowerChar(c) ==
    CASE c = "A" -> "a"
      [] c = "B" -> "b"
      [] c = "C" -> "c"
      [] c = "D" -> "d"
      [] c = "E" -> "e"
      [] c = "N" -> "n"
      [] c = "S" -> "s"
      [] OTHER -> c

Lower(s) == [i \in 1..Len(s) |-> LowerChar(s[i])]

RECURSIVE LStrip(_)
LStrip(s) == IF s # <<>> /\ Head(s) = " " THEN LStrip(Tail(s)) ELSE s

RECURSIVE RStrip(_)
RStrip(s) ==
    IF s # <<>> /\ s[Len(s)] = " " THEN RStrip(SubSeq(s, 1, Len(s) - 1)) ELSE s

Strip(s) == RStrip(LStrip(s))

\* Python's  a in b  on strings
In(a, b) ==
    \E i \in 0..(Len(b) - Len(a)) : SubSeq(b, i + 1, i + Len(a)) = a

StartsWith(s, p) == Len(s) >= Len(p) /\ SubSeq(s, 1, Len(p)) = p

\* Python's  s[n:]
From(s, n) == SubSeq(s, n + 1, Len(s))

\* titles a user may say: two of them differ in a leading space only
T_ab == <<"a", "b">>
T_ab_sp == <<" ", "a", "b">>
T_a == <<"a">>

Desconocido == <<"D", "e", "s", "c", "o", "n", "o", "c", "i", "d", "o">>
SinCategoria == <<"S", "i", "n", " ", "c", "a", "t", "e", "g", "o", "r", "í", "a">>
UnAmigo == <<"u", "n", " ", "a", "m", "i", "g", "o">>

----------------------------------------------------------------------------
(* What an operation returned: the handler or method, the return statement *)
(* taken, and the values the reply carries.                                 *)

Resp(h, k) ==
    [handler |-> h, kind |-> k, valor |-> <<>>, titulo |-> <<>>, id |-> 0,
     a_tiempo |-> FALSE, desde |-> 0, hasta |-> 0, total |-> 0,
     mostrados |-> <<>>, prestados |-> <<>>]

----------------------------------------------------------------------------
(* Clock *)

Instantes ==
    {0, CACHE_TTL_SECONDS, CACHE_TTL_SECONDS + 1,
     Dias(DIAS_PRESTAMO), Dias(DIAS_PRESTAMO) + 1}

\* time passes between two requests, up to one of the instants of I
Avanza(I) ==
    /\ \E t \in I : t > now /\ now' = t
    /\ resp' = Resp("Tick", "ok")
    /\ UNCHANGED <<store, cache, mcache, session, nextId, backend>>

Tick == Avanza(Instantes)

----------------------------------------------------------------------------
(* Persistent record *)

initial_data ==
    [libros_disponibles |-> <<>>,
     prestamos_activos |-> <<>>,
     historial_prestamos |-> <<>>]

SinSesion == [k \in {} |-> TRUE]

Get(s, k, d) == IF k \in DOMAIN s THEN s[k] ELSE d

\* position of the first element of seq that satisfies P, 0 if none
First(seq, P(_)) ==
    IF \E i \in 1..Len(seq) : P(seq[i])
    THEN CHOOSE i \in 1..Len(seq) :
            P(seq[i]) /\ \A j \in 1..(i - 1) : ~P(seq[j])
    ELSE 0

\* list.pop(i) that takes nothing out
Remove_sin_quitar(seq, i) == seq

\* the list after list.pop(i)
Remove(seq, i) == SubSeq(seq, 1, i - 1) \o SubSeq(seq, i + 1, Len(seq))

\* [x.id for x in l]
IdsDeLista(l) == [i \in 1..Len(l) |-> l[i].id]

----------------------------------------------------------------------------
(* lambda_function.py: _CACHE and DatabaseManager *)

_cache_get(u) ==
    IF cache[u] = <<>> THEN <<>>
    ELSE IF now > cache[u][1].expire_at THEN <<>>
    ELSE <<cache[u][1].data>>

_cache_put(data) == <<[data |-> data, expire_at |-> now + CACHE_TTL_SECONDS]>>

\* the record DatabaseManager.get_user_data returns
get_user_data(u) ==
    IF _cache_get(u) # <<>> THEN _cache_get(u)[1]
    ELSE IF store[u] = <<>> THEN initial_data
    ELSE store[u][1]

\* persistent attributes after get_user_data: an empty record is initialised
StoreAfterGet(u) ==
    IF _cache_get(u) = <<>> /\ store[u] = <<>> THEN <<initial_data>> ELSE store[u]

\* get_user_data hands out the cached object itself: what a handler changes
\* in it is changed in the cache, whether or not it saves afterwards
CacheAfterGet(u, data) ==
    <<[data |-> data,
       expire_at |-> IF _cache_get(u) # <<>> THEN cache[u][1].expire_at
                     ELSE now + CACHE_TTL_SECONDS]>>

\* a handler that read the record, left it as  data  and did not save
Leido(u, data) ==
    /\ store' = [store EXCEPT ![u] = StoreAfterGet(u)]
    /\ cache' = [cache EXCEPT ![u] = CacheAfterGet(u, data)]

save_user_data(u, data) ==
    /\ store' = [store EXCEPT ![u] = <<data>>]
    /\ cache' = [cache EXCEPT ![u] = _cache_put(data)]

sincronizar_estados_libros(data) ==
    LET ids_prestados ==
            {data.prestamos_activos[i].libro_id :
                i \in 1..Len(data.prestamos_activos)}
    IN [data EXCEPT !.libros_disponibles =
            [i \in 1..Len(data.libros_disponibles) |->
                [data.libros_disponibles[i] EXCEPT !.estado =
                    IF data.libros_disponibles[i].id \in ids_prestados
                    THEN "prestado" ELSE "disponible"]]]

\* position of the first book whose title matches, 0 if none
buscar_libro_por_titulo_exacto(libros, titulo_busqueda) ==
    LET b == Strip(Lower(titulo_busqueda))
        Coincide(l) == In(b, Lower(l.titulo)) \/ In(Lower(l.titulo), b)
    IN First(libros, Coincide)

----------------------------------------------------------------------------
(* lambda_function.py: PrestarLibroIntentHandler, DevolverLibroIntentHandler *)

Personas == {<<>>}

\* can_handle of ContinuarAgregarHandler, registered before the intent
\* handlers below, takes every request while a book is being added
Agregando == Get(session, "agregando_libro", FALSE)

PrestarLibroIntentHandler(u, titulo, nombre_persona) ==
    /\ ~Agregando
    /\ UNCHANGED <<mcache, session, now, backend>>
    /\ IF titulo = <<>>
       THEN /\ resp' = Resp("PrestarLibro", "pedir_titulo")
            /\ UNCHANGED <<store, cache, nextId>>
       ELSE
       LET user_data == sincronizar_estados_libros(get_user_data(u))
           libros == user_data.libros_disponibles
           prestamos == user_data.prestamos_activos
           n == buscar_libro_por_titulo_exacto(libros, titulo)
           YaPrestado(p) == p.libro_id = libros[n].id
           prestamo ==
               [id |-> nextId,
                libro_id |-> libros[n].id,
                titulo |-> libros[n].titulo,
                persona |-> IF nombre_persona # <<>> THEN nombre_persona
                            ELSE UnAmigo,
                fecha_prestamo |-> now,
                fecha_limite |-> now + Dias(DIAS_PRESTAMO),
                estado |-> "activo"]
       IN IF n = 0
          THEN /\ resp' = [Resp("PrestarLibro", "no_encontrado")
                              EXCEPT !.titulo = titulo]
               /\ Leido(u, user_data)
               /\ UNCHANGED nextId
          ELSE IF First(prestamos, YaPrestado) # 0
          THEN /\ resp' = [Resp("PrestarLibro", "ya_prestado")
                              EXCEPT !.titulo = libros[n].titulo,
                                     !.id = libros[n].id]
               /\ Leido(u, user_data)
               /\ UNCHANGED nextId
          ELSE /\ nextId <= MaxIds
               /\ save_user_data(u,
                    [user_data EXCEPT
                        !.prestamos_activos = Append(prestamos, prestamo),
                        !.libros_disponibles[n].estado = "prestado",
                        !.libros_disponibles[n].total_prestamos = @ + 1])
               /\ nextId' = nextId + 1
               /\ resp' = [Resp("PrestarLibro", "ok")
                              EXCEPT !.titulo = libros[n].titulo,
                                     !.id = prestamo.id]

DevolverLibroIntentHandler(u, titulo, id_prestamo) ==
    /\ ~Agregando
    /\ UNCHANGED <<mcache, session, now, nextId, backend>>
    /\ IF titulo = <<>> /\ id_prestamo = 0
       THEN /\ resp' = Resp("DevolverLibro", "pedir_titulo")
            /\ UNCHANGED <<store, cache>>
       ELSE
       LET user_data == get_user_data(u)
           prestamos == user_data.prestamos_activos
           Es(p) == \/ (id_prestamo # 0 /\ p.id = id_prestamo)
                    \/ (titulo # <<>> /\ In(Lower(titulo), Lower(p.titulo)))
           indice == First(prestamos, Es)
           prestamo_encontrado ==
               [id |-> prestamos[indice].id,
                libro_id |-> prestamos[indice].libro_id,
                titulo |-> prestamos[indice].titulo,
                persona |-> prestamos[indice].persona,
                fecha_prestamo |-> prestamos[indice].fecha_prestamo,
                fecha_limite |-> prestamos[indice].fecha_limite,
                estado |-> "devuelto",
                fecha_devolucion |-> now]
           EsLibro(l) == l.id = prestamo_encontrado.libro_id
           k == First(user_data.libros_disponibles, EsLibro)
           libros == IF k = 0 THEN user_data.libros_disponibles
                     ELSE [user_data.libros_disponibles
                              EXCEPT ![k].estado = "disponible"]
       IN IF prestamos = <<>>
          THEN /\ resp' = [Resp("DevolverLibro", "sin_prestamos")
                              EXCEPT !.titulo = titulo, !.id = id_prestamo]
               /\ Leido(u, user_data)
          ELSE IF indice = 0
          THEN /\ resp' = [Resp("DevolverLibro", "no_encontrado")
                              EXCEPT !.titulo = titulo, !.id = id_prestamo]
               /\ Leido(u, user_data)
          ELSE /\ save_user_data(u,
                    [libros_disponibles |-> libros,
                     prestamos_activos |-> Remove(prestamos, indice),
                     historial_prestamos |->
                        Append(user_data.historial_prestamos,
                               prestamo_encontrado)])
               /\ resp' = [Resp("DevolverLibro", "ok")
                              EXCEPT !.titulo = prestamo_encontrado.titulo,
                                     !.id = prestamo_encontrado.id,
                                     !.a_tiempo =
                                        now <= prestamo_encontrado.fecha_limite]

----------------------------------------------------------------------------
(* lambda_function.py: AgregarLibroIntentHandler, ContinuarAgregarHandler *)

NoSe == <<"n", "o", " ", "s", "é">>
NoSe_sin == <<"n", "o", " ", "s", "e">>
NoLoSe == <<"n", "o", " ", "l", "o", " ", "s", "é">>
NoLoSe_sin == <<"n", "o", " ", "l", "o", " ", "s", "e">>
ElAutor == <<" ", "e", "l", " ", "a", "u", "t", "o", "r">>
ElTipo == <<" ", "e", "l", " ", "t", "i", "p", "o">>
ElAutorEs == <<"e", "l", " ", "a", "u", "t", "o", "r", " ", "e", "s", " ">>
ElTipoEs == <<"e", "l", " ", "t", "i", "p", "o", " ", "e", "s", " ">>
Es_ == <<"e", "s", " ">>
V_x == <<"x">>
V_n == <<"n">>

\* what the user may say in a slot; <<>> is an absent slot
Respuestas == {<<>>, T_ab, NoSe, V_n}

Put(s, k, v) == [x \in DOMAIN s \cup {k} |-> IF x = k THEN v ELSE s[x]]

\* the duplicate check and the append shared by both handlers
Duplicado(libros, titulo) ==
    \E i \in 1..Len(libros) : Lower(libros[i].titulo) = Lower(titulo)

nuevo_libro(titulo, autor, tipo) ==
    [id |-> nextId, titulo |-> titulo, autor |-> autor, tipo |-> tipo,
     total_prestamos |-> 0, estado |-> "disponible"]

\* a save that leaves the session as it is when the title is a duplicate
GuardarLibro_sin_limpiar(u, r, titulo, autor, tipo) ==
    LET user_data == get_user_data(u)
        libros == user_data.libros_disponibles
    IN IF Duplicado(libros, titulo)
       THEN /\ resp' = [r EXCEPT !.kind = "duplicado", !.titulo = titulo]
            /\ Leido(u, user_data)
            /\ UNCHANGED <<nextId, session>>
       ELSE /\ Len(libros) < MaxBooks
            /\ nextId <= MaxIds
            /\ session' = SinSesion
            /\ save_user_data(u,
                 [user_data EXCEPT !.libros_disponibles =
                     Append(libros, nuevo_libro(titulo, autor, tipo))])
            /\ nextId' = nextId + 1
            /\ resp' = [r EXCEPT !.kind = "ok", !.titulo = titulo,
                                    !.id = nextId,
                                    !.total = Len(libros) + 1]

\* r is the reply so far: the handler and what the user said
GuardarLibro(u, r, titulo, autor, tipo) ==
    LET user_data == get_user_data(u)
        libros == user_data.libros_disponibles
    IN /\ session' = SinSesion
       /\ IF Duplicado(libros, titulo)
          THEN /\ resp' = [r EXCEPT !.kind = "duplicado", !.titulo = titulo]
               /\ Leido(u, user_data)
               /\ UNCHANGED nextId
          ELSE /\ Len(libros) < MaxBooks
               /\ nextId <= MaxIds
               /\ save_user_data(u,
                    [user_data EXCEPT !.libros_disponibles =
                        Append(libros, nuevo_libro(titulo, autor, tipo))])
               /\ nextId' = nextId + 1
               /\ resp' = [r EXCEPT !.kind = "ok", !.titulo = titulo,
                                       !.id = nextId,
                                       !.total = Len(libros) + 1]

\* a field taken from the slot alone
ValorDeSesion_solo_slot(slot, clave) == slot

\* slot or session_attrs.get(clave), the latter while agregando_libro is set
ValorDeSesion(slot, clave) ==
    IF slot = <<>> /\ Get(session, "agregando_libro", FALSE)
    THEN Get(session, clave, <<>>)
    ELSE slot

AgregarLibroIntentHandler(u, s_titulo, s_autor, s_tipo) ==
    LET titulo == ValorDeSesion(s_titulo, "titulo_temp")
        autor == ValorDeSesion(s_autor, "autor_temp")
        tipo == ValorDeSesion(s_tipo, "tipo_temp")
        s1 == Put(Put(session, "titulo_temp", titulo), "agregando_libro", TRUE)
        s2 == Put(s1, "autor_temp", autor)
        R(k) == [Resp("AgregarLibro", k)
                    EXCEPT !.valor = s_titulo \o s_autor \o s_tipo]
    IN /\ UNCHANGED <<mcache, now, backend>>
       /\ IF titulo = <<>>
          THEN /\ session' = Put(Put(session, "agregando_libro", TRUE),
                                 "esperando", "titulo")
               /\ resp' = R("pedir_titulo")
               /\ UNCHANGED <<store, cache, nextId>>
          ELSE IF autor = <<>>
          THEN /\ session' = Put(s1, "esperando", "autor")
               /\ resp' = [R("pedir_autor") EXCEPT !.titulo = titulo]
               /\ UNCHANGED <<store, cache, nextId>>
          ELSE IF tipo = <<>>
          THEN /\ session' = Put(s2, "esperando", "tipo")
               /\ resp' = [R("pedir_tipo") EXCEPT !.titulo = titulo]
               /\ UNCHANGED <<store, cache, nextId>>
          ELSE GuardarLibro(u, R(""), titulo,
                  IF Lower(autor) \in {NoSe, NoSe_sin, NoLoSe}
                  THEN Desconocido ELSE autor,
                  IF Lower(tipo) \in {NoSe, NoSe_sin, NoLoSe}
                  THEN SinCategoria ELSE tipo)

\* intents for which an empty answer is taken as a misheard reply
Malinterpretados ==
    {"LimpiarCacheIntent", "SiguientePaginaIntent", "ListarLibrosIntent",
     "BuscarLibroIntent"}

Intents == {"RespuestaGeneralIntent", "ListarLibrosIntent"}

\* the answer taken as it was said
Normalizar_tal_cual(valor, nose, prefijo, centinela) == valor

\* the answer with "no sé" replaced by the sentinel and a prefix removed
Normalizar(valor, nose, prefijo, centinela) ==
    IF valor = <<>> \/ Lower(valor) \in nose THEN centinela
    ELSE IF StartsWith(Lower(valor), prefijo)
    THEN Strip(From(valor, Len(prefijo)))
    ELSE IF StartsWith(Lower(valor), Es_) THEN Strip(From(valor, 3))
    ELSE valor

\* the reply that asks again for the field the dialogue is waiting for
Repetir(esperando) ==
    CASE esperando = "autor" -> "repetir_autor"
      [] esperando = "tipo" -> "repetir_tipo"
      [] OTHER -> "repetir_titulo"

\* an answer to the title prompt that adds the book at once
ContinuarAgregarHandler_titulo_que_guarda(u, r, valor) ==
    IF valor # <<>>
    THEN GuardarLibro(u, r, valor, Desconocido, SinCategoria)
    ELSE /\ session' = session
         /\ resp' = [r EXCEPT !.kind = "pedir_titulo"]
         /\ UNCHANGED <<store, cache, nextId>>

\* the branch of ContinuarAgregarHandler.handle for esperando == "titulo";
\* r is the reply so far
ContinuarAgregarHandler_titulo(u, r, valor) ==
    /\ UNCHANGED <<store, cache, nextId>>
    /\ IF valor # <<>>
       THEN /\ session' = Put(Put(session, "titulo_temp", valor),
                              "esperando", "autor")
            /\ resp' = [r EXCEPT !.kind = "pedir_autor", !.titulo = valor]
       ELSE /\ session' = session
            /\ resp' = [r EXCEPT !.kind = "pedir_titulo"]

\* an answer to the author prompt that moves on without keeping the author
ContinuarAgregarHandler_autor_sin_guardar(u, r, valor) ==
    /\ UNCHANGED <<store, cache, nextId>>
    /\ session' = Put(session, "esperando", "tipo")
    /\ resp' = [r EXCEPT !.kind = "pedir_tipo",
                         !.titulo = Get(session, "titulo_temp", <<>>)]

\* the branch of ContinuarAgregarHandler.handle for esperando == "autor"
ContinuarAgregarHandler_autor(u, r, valor) ==
    /\ UNCHANGED <<store, cache, nextId>>
    /\ session' =
         Put(Put(session, "autor_temp",
                 Normalizar(valor,
                    {NoSe, NoSe_sin, NoLoSe, NoLoSe_sin,
                     NoSe \o ElAutor, NoSe_sin \o ElAutor},
                    ElAutorEs, Desconocido)),
             "esperando", "tipo")
    /\ resp' = [r EXCEPT !.kind = "pedir_tipo",
                         !.titulo = Get(session, "titulo_temp", <<>>)]

ContinuarAgregarHandler(u, intent_name, valor) ==
    LET esperando == Get(session, "esperando", "")
        R(k) == [Resp("ContinuarAgregar", k) EXCEPT !.valor = valor]
    IN /\ Agregando
       /\ UNCHANGED <<mcache, now, backend>>
       /\ IF valor = <<>> /\ intent_name \in Malinterpretados
             /\ esperando \in {"autor", "tipo", "titulo"}
          THEN /\ resp' = R(Repetir(esperando))
               /\ UNCHANGED <<store, cache, session, nextId>>
          ELSE IF esperando = "titulo"
          THEN ContinuarAgregarHandler_titulo(u, R(""), valor)
          ELSE IF esperando = "autor"
          THEN ContinuarAgregarHandler_autor(u, R(""), valor)
          ELSE IF esperando = "tipo"
          THEN GuardarLibro(u, R(""),
                  Get(session, "titulo_temp", <<>>),
                  Get(session, "autor_temp", Desconocido),
                  Normalizar(valor,
                     {NoSe, NoSe_sin, NoLoSe, NoLoSe_sin,
                      NoSe \o ElTipo, NoSe_sin \o ElTipo},
                     ElTipoEs, SinCategoria))
          ELSE /\ session' = SinSesion
               /\ resp' = R("problema")
               /\ UNCHANGED <<store, cache, nextId>>

\* The turn of either handler in which the persistent attributes raise while
\* the book is being saved: the except clause empties the session and asks
\* which book to add.  get_user_data raises only when it has to read the
\* attributes (a cache miss) and leaves everything as it was;
\* save_persistent_attributes raises after the book has been appended to the
\* list of the record that get_user_data handed out, which is the cached one.
ExcepcionAlGuardar(u, r, titulo, autor, tipo) ==
    LET user_data == get_user_data(u)
        libros == user_data.libros_disponibles
    IN /\ session' = SinSesion
       /\ resp' = [r EXCEPT !.kind = "error", !.titulo = titulo]
       /\ UNCHANGED nextId
       /\ \/ /\ _cache_get(u) = <<>>
             /\ UNCHANGED <<store, cache>>
          \/ /\ ~Duplicado(libros, titulo)
             /\ Len(libros) < MaxBooks
             /\ nextId <= MaxIds
             /\ Leido(u, [user_data EXCEPT !.libros_disponibles =
                            Append(libros, nuevo_libro(titulo, autor, tipo))])

\* an except clause that leaves the session as the turn found it
ContinuarAgregarHandler_excepcion_sin_limpiar(u, intent_name, valor) ==
    /\ Agregando
    /\ Get(session, "esperando", "") = "tipo"
    /\ ~(valor = <<>> /\ intent_name \in Malinterpretados)
    /\ resp' = [Resp("ContinuarAgregar", "error") EXCEPT !.valor = valor]
    /\ UNCHANGED <<store, cache, mcache, session, now, nextId, backend>>

ContinuarAgregarHandler_excepcion(u, intent_name, valor) ==
    /\ Agregando
    /\ Get(session, "esperando", "") = "tipo"
    /\ ~(valor = <<>> /\ intent_name \in Malinterpretados)
    /\ UNCHANGED <<mcache, now, backend>>
    /\ ExcepcionAlGuardar(u,
          [Resp("ContinuarAgregar", "") EXCEPT !.valor = valor],
          Get(session, "titulo_temp", <<>>),
          Get(session, "autor_temp", Desconocido),
          Normalizar(valor,
             {NoSe, NoSe_sin, NoLoSe, NoLoSe_sin,
              NoSe \o ElTipo, NoSe_sin \o ElTipo},
             ElTipoEs, SinCategoria))

AgregarLibroIntentHandler_excepcion(u, s_titulo, s_autor, s_tipo) ==
    LET titulo == ValorDeSesion(s_titulo, "titulo_temp")
        autor == ValorDeSesion(s_autor, "autor_temp")
        tipo == ValorDeSesion(s_tipo, "tipo_temp")
    IN /\ titulo # <<>> /\ autor # <<>> /\ tipo # <<>>
       /\ UNCHANGED <<mcache, now, backend>>
       /\ ExcepcionAlGuardar(u,
             [Resp("AgregarLibro", "")
                 EXCEPT !.valor = s_titulo \o s_autor \o s_tipo],
             titulo,
             IF Lower(autor) \in {NoSe, NoSe_sin, NoLoSe}
             THEN Desconocido ELSE autor,
             IF Lower(tipo) \in {NoSe, NoSe_sin, NoLoSe}
             THEN SinCategoria ELSE tipo)

CancelOrStopIntentHandler_sin_limpiar ==
    /\ session' = session
    /\ resp' = Resp("CancelOrStop", "adios")
    /\ UNCHANGED <<store, cache, mcache, now, nextId, backend>>

CancelOrStopIntentHandler ==
    /\ session' = SinSesion
    /\ resp' = Resp("CancelOrStop", "adios")
    /\ UNCHANGED <<store, cache, mcache, now, nextId, backend>>

----------------------------------------------------------------------------
(* adapters/cache_adapter.py: MemoryCacheService.  The operators take the   *)
(* cache contents and return the contents after the call (mc) and the value *)
(* returned (val, <<>> for None).                                           *)

CacheKey(prefix, u) == <<prefix, u>>

CacheKeys == {CacheKey(p, u) : p \in {"books", "user_data"}, u \in Users}

\* get that takes an entry for expired at its expiry time
MemoryCacheService_get_ansioso(mc, key) ==
    IF mc[key] = <<>> THEN [mc |-> mc, val |-> <<>>]
    ELSE IF now >= mc[key][1].expire_at
    THEN [mc |-> [mc EXCEPT ![key] = <<>>], val |-> <<>>]
    ELSE [mc |-> mc, val |-> <<mc[key][1].data>>]

MemoryCacheService_get(mc, key) ==
    IF mc[key] = <<>> THEN [mc |-> mc, val |-> <<>>]
    ELSE IF now > mc[key][1].expire_at
    THEN [mc |-> [mc EXCEPT ![key] = <<>>], val |-> <<>>]
    ELSE [mc |-> mc, val |-> <<mc[key][1].data>>]

MemoryCacheService_set(mc, key, data, ttl_seconds) ==
    [mc EXCEPT ![key] = <<[data |-> data, expire_at |-> now + ttl_seconds]>>]

MemoryCacheService_delete(mc, key) == [mc EXCEPT ![key] = <<>>]

----------------------------------------------------------------------------
(* repositories/book_repository.py.  S is the pair [st, mc] of persistent   *)
(* attributes and cache contents a call starts from; the result carries the *)
(* pair it ends with and the value returned.                                *)

\* The two private hooks of each repository are written in the source as
\* placeholders ("simulamos la estructura esperada", "pass"): backend =
\* "stub" is that code.  backend = "adapter" is the repository with the
\* hooks wired to the injected data adapter, as their comments announce.
DatosEnAdaptador(st, u) == IF st[u] = <<>> THEN initial_data ELSE st[u][1]

GuardarEnAdaptador(st, u, user_data) == [st EXCEPT ![u] = <<user_data>>]

BookRepository_get_user_data(S, u) ==
    IF backend = "stub" THEN initial_data ELSE DatosEnAdaptador(S.st, u)

BookRepository_save_user_data(S, u, user_data) ==
    IF backend = "stub" THEN S.st ELSE GuardarEnAdaptador(S.st, u, user_data)

Book_from_dict(d) == [d EXCEPT !.titulo = Strip(@)]

Books(books_data) == [i \in 1..Len(books_data) |-> Book_from_dict(books_data[i])]

coincide_titulo(titulo, busqueda) ==
    /\ busqueda # <<>>
    /\ \/ In(Strip(Lower(busqueda)), Lower(titulo))
       \/ In(Lower(titulo), Strip(Lower(busqueda)))

BookRepository_cache_ttl == 3600

BookRepository_find_all(S, u) ==
    LET g == MemoryCacheService_get(S.mc, CacheKey("books", u))
        user_data == BookRepository_get_user_data(S, u)
    IN IF g.val # <<>>
       THEN [st |-> S.st, mc |-> g.mc,
             val |-> Books(g.val[1].libros_disponibles)]
       ELSE [st |-> S.st,
             mc |-> MemoryCacheService_set(g.mc, CacheKey("books", u),
                                           user_data, BookRepository_cache_ttl),
             val |-> Books(user_data.libros_disponibles)]

\* val: <<>> or <<book>>
BookRepository_find_by_id(S, u, book_id) ==
    LET r == BookRepository_find_all(S, u)
        Es(b) == b.id = book_id
        n == First(r.val, Es)
    IN [r EXCEPT !.val = IF n = 0 THEN <<>> ELSE <<r.val[n]>>]

BookRepository_find_by_title(S, u, title) ==
    LET r == BookRepository_find_all(S, u)
        Es(b) == coincide_titulo(b.titulo, title)
    IN [r EXCEPT !.val = SelectSeq(r.val, Es)]

BookRepository_exists_title(S, u, title) ==
    LET r == BookRepository_find_all(S, u)
    IN [r EXCEPT !.val =
            \E i \in 1..Len(r.val) :
                Strip(Lower(r.val[i].titulo)) = Strip(Lower(title))]

BookRepository_save(S, u, book) ==
    LET user_data == BookRepository_get_user_data(S, u)
        books_data == user_data.libros_disponibles
        Es(b) == b.id = book.id
        book_index == First(books_data, Es)
        nuevos == IF book_index > 0
                  THEN [books_data EXCEPT ![book_index] = book]
                  ELSE Append(books_data, book)
    IN [st |-> BookRepository_save_user_data(S, u,
                  [user_data EXCEPT !.libros_disponibles = nuevos]),
        mc |-> MemoryCacheService_delete(S.mc, CacheKey("books", u)),
        val |-> TRUE]

BookRepository_delete(S, u, book_id) ==
    LET user_data == BookRepository_get_user_data(S, u)
        books_data == user_data.libros_disponibles
        Otro(b) == b.id # book_id
        quedan == SelectSeq(books_data, Otro)
    IN IF Len(quedan) < Len(books_data)
       THEN [st |-> BookRepository_save_user_data(S, u,
                       [user_data EXCEPT !.libros_disponibles = quedan]),
             mc |-> MemoryCacheService_delete(S.mc, CacheKey("books", u)),
             val |-> TRUE]
       ELSE [st |-> S.st, mc |-> S.mc, val |-> FALSE]

----------------------------------------------------------------------------
(* models/loan.py and repositories/loan_repository.py *)

esta_vencido(loan) == loan.estado = "activo" /\ now > loan.fecha_limite

actualizar_estado(loan) ==
    IF loan.estado = "activo" /\ esta_vencido(loan)
    THEN [loan EXCEPT !.estado = "vencido"] ELSE loan

esta_activo(loan) == loan.estado = "activo"

Loan_devolver(loan) ==
    IF loan.estado = "devuelto" THEN loan
    ELSE [loan EXCEPT !.estado = "devuelto", !.fecha_devolucion = now]

fue_devuelto_a_tiempo(loan) ==
    IF loan.estado # "devuelto" \/ loan.fecha_devolucion < 0 THEN FALSE
    ELSE loan.fecha_devolucion <= loan.fecha_limite

LoanRepository_get_user_data(S, u) ==
    LET g == MemoryCacheService_get(S.mc, CacheKey("user_data", u))
    IN [st |-> S.st, mc |-> g.mc,
        val |-> IF g.val # <<>> THEN g.val[1]
                ELSE IF backend = "stub" THEN initial_data
                ELSE DatosEnAdaptador(S.st, u)]

LoanRepository_save_user_data(S, u, user_data) ==
    IF backend = "stub" THEN S.st ELSE GuardarEnAdaptador(S.st, u, user_data)

LoanRepository_invalidate_cache(mc, u) ==
    MemoryCacheService_delete(mc, CacheKey("user_data", u))

LoanRepository_find_active_loans(S, u) ==
    LET r == LoanRepository_get_user_data(S, u)
        loans_data == r.val.prestamos_activos
    IN [r EXCEPT !.val =
            [i \in 1..Len(loans_data) |-> actualizar_estado(loans_data[i])]]

\* a lookup that passes over the loans that are past their due date
LoanRepository_find_by_book_id_vigente(S, u, book_id) ==
    LET r == LoanRepository_find_active_loans(S, u)
        Es(l) == l.libro_id = book_id /\ esta_activo(l)
        n == First(r.val, Es)
    IN [r EXCEPT !.val = IF n = 0 THEN <<>> ELSE <<r.val[n]>>]

\* val: <<>> or <<loan>>
LoanRepository_find_by_book_id(S, u, book_id) ==
    LET r == LoanRepository_find_active_loans(S, u)
        Es(l) == l.libro_id = book_id
        n == First(r.val, Es)
    IN [r EXCEPT !.val = IF n = 0 THEN <<>> ELSE <<r.val[n]>>]

LoanRepository_find_by_title(S, u, title) ==
    LET r == LoanRepository_find_active_loans(S, u)
        Es(l) == coincide_titulo(l.titulo, title)
        n == First(r.val, Es)
    IN [r EXCEPT !.val = IF n = 0 THEN <<>> ELSE <<r.val[n]>>]

LoanRepository_save_loan(S, u, loan) ==
    LET r == LoanRepository_get_user_data(S, u)
        user_data == r.val
        activos == user_data.prestamos_activos
        Es(l) == l.id = loan.id
        Otro(l) == l.id # loan.id
        loan_index == First(activos, Es)
        nuevo ==
            IF esta_activo(loan)
            THEN [user_data EXCEPT !.prestamos_activos =
                    IF loan_index > 0 THEN [activos EXCEPT ![loan_index] = loan]
                    ELSE Append(activos, loan)]
            ELSE [user_data EXCEPT
                    !.prestamos_activos = SelectSeq(activos, Otro),
                    !.historial_prestamos = Append(@, loan)]
    IN [st |-> LoanRepository_save_user_data(r, u, nuevo),
        mc |-> LoanRepository_invalidate_cache(r.mc, u),
        val |-> TRUE]

LoanRepository_complete_loan(S, u, loan_id) ==
    LET r == LoanRepository_get_user_data(S, u)
        user_data == r.val
        activos == user_data.prestamos_activos
        Es(l) == l.id = loan_id
        loan_index == First(activos, Es)
    IN IF loan_index = 0 THEN [r EXCEPT !.val = FALSE]
       ELSE [st |-> LoanRepository_save_user_data(r, u,
                       [user_data EXCEPT
                           !.prestamos_activos = Remove(activos, loan_index),
                           !.historial_prestamos =
                               Append(@, Loan_devolver(activos[loan_index]))]),
             mc |-> LoanRepository_invalidate_cache(r.mc, u),
             val |-> TRUE]

----------------------------------------------------------------------------
(* services/book_service.py and services/loan_service.py.  An action is one *)
(* call of a service method with every repository call it makes.            *)

max_loans_per_user == 10
default_loan_days == 7

Estado0 == [st |-> store, mc |-> mcache]

Termina(r, respuesta) ==
    /\ store' = r.st
    /\ mcache' = r.mc
    /\ resp' = respuesta

\* BookService.add_book from the repositories' state S: the state it ends
\* with, the return taken, and the title and id of the book
BookService_add_book(S, u, titulo, autor, tipo) ==
    LET e == BookRepository_exists_title(S, u, Strip(titulo))
        new_book ==
            [id |-> nextId,
             titulo |-> Strip(titulo),
             autor |-> IF Strip(autor) # <<>> THEN Strip(autor)
                       ELSE Desconocido,
             tipo |-> IF Strip(tipo) # <<>> THEN Strip(tipo)
                      ELSE SinCategoria,
             estado |-> "disponible",
             total_prestamos |-> 0]
        s1 == BookRepository_save(e, u, new_book)
    IN IF titulo = <<>> \/ Strip(titulo) = <<>>
       THEN [st |-> S.st, mc |-> S.mc, kind |-> "titulo_requerido",
             titulo |-> <<>>, id |-> 0]
       ELSE IF e.val
       THEN [st |-> e.st, mc |-> e.mc, kind |-> "duplicado",
             titulo |-> Strip(titulo), id |-> 0]
       ELSE [st |-> s1.st, mc |-> s1.mc, kind |-> "ok",
             titulo |-> Strip(titulo), id |-> nextId]

add_book(u, titulo, autor, tipo) ==
    LET r == BookService_add_book(Estado0, u, titulo, autor, tipo)
    IN /\ UNCHANGED <<cache, session, now, backend>>
       /\ r.kind = "ok"
             => /\ nextId <= MaxIds
                /\ Len(DatosEnAdaptador(store, u).libros_disponibles) < MaxBooks
       /\ Termina(r, [Resp("add_book", r.kind)
                         EXCEPT !.titulo = r.titulo, !.id = r.id])
       /\ nextId' = IF r.kind = "ok" THEN nextId + 1 ELSE nextId

\* the list get_all_books returns, states synchronised with the loans
get_all_books_desde(S, u) ==
    LET b == BookRepository_find_all(S, u)
        l == LoanRepository_find_active_loans(b, u)
        loaned_book_ids == {l.val[i].libro_id : i \in 1..Len(l.val)}
    IN [l EXCEPT !.val =
            [i \in 1..Len(b.val) |->
                [b.val[i] EXCEPT !.estado =
                    IF b.val[i].id \in loaned_book_ids THEN "prestado"
                    ELSE "disponible"]]]

get_all_books(u) == get_all_books_desde(Estado0, u)

\* what find_all met in the cache: no entry, an expired entry or a valid one
LecturaDeCache(mc, key) ==
    IF mc[key] = <<>> THEN "ausente"
    ELSE IF MemoryCacheService_get(mc, key).val = <<>> THEN "expirada"
    ELSE "vigente"

GetAllBooks(u) ==
    LET r == get_all_books(u)
        prestados == SelectSeq(r.val, LAMBDA b : b.estado # "disponible")
    IN /\ UNCHANGED <<cache, session, now, nextId, backend>>
       /\ Termina(r,
               [Resp("get_all_books",
                     LecturaDeCache(mcache, CacheKey("books", u)))
                   EXCEPT !.total = Len(r.val),
                          !.mostrados = [i \in 1..Len(r.val) |-> r.val[i].id],
                          !.prestados = [i \in 1..Len(prestados) |->
                                            prestados[i].id]])

coincide_autor(autor, busqueda) ==
    /\ busqueda # <<>>
    /\ \/ In(Strip(Lower(busqueda)), Lower(autor))
       \/ In(Lower(autor), Strip(Lower(busqueda)))

BookRepository_find_by_author(S, u, author) ==
    LET r == BookRepository_find_all(S, u)
        Es(b) == coincide_autor(b.autor, author)
    IN [r EXCEPT !.val = SelectSeq(r.val, Es)]

\* a synchronisation that hands the books back with the estado they carry
sync_book_states_confiado(S, u, books) == [st |-> S.st, mc |-> S.mc, val |-> books]

\* BookService._sync_book_states
sync_book_states(S, u, books) ==
    LET l == LoanRepository_find_active_loans(S, u)
        loaned_book_ids == {l.val[i].libro_id : i \in 1..Len(l.val)}
    IN IF books = <<>> THEN [st |-> S.st, mc |-> S.mc, val |-> books]
       ELSE [l EXCEPT !.val =
               [i \in 1..Len(books) |->
                   [books[i] EXCEPT !.estado =
                       IF books[i].id \in loaned_book_ids THEN "prestado"
                       ELSE "disponible"]]]

esta_disponible(book) == book.estado = "disponible"

get_available_books(u) ==
    LET r == get_all_books(u)
    IN [r EXCEPT !.val = SelectSeq(r.val, esta_disponible)]

get_loaned_books(u) ==
    LET r == get_all_books(u)
    IN [r EXCEPT !.val = SelectSeq(r.val, LAMBDA b : ~esta_disponible(b))]

search_books_by_title(u, search_term) ==
    LET f == BookRepository_find_by_title(Estado0, u, Strip(search_term))
    IN IF search_term = <<>> \/ Strip(search_term) = <<>>
       THEN [st |-> store, mc |-> mcache, val |-> <<>>]
       ELSE sync_book_states(f, u, f.val)

search_books_by_author(u, search_term) ==
    LET f == BookRepository_find_by_author(Estado0, u, Strip(search_term))
    IN IF search_term = <<>> \/ Strip(search_term) = <<>>
       THEN [st |-> store, mc |-> mcache, val |-> <<>>]
       ELSE sync_book_states(f, u, f.val)

\* one call of a method of BookService that returns a list of books
Consultas ==
    {"get_available_books", "get_loaned_books", "search_books_by_title",
     "search_books_by_author"}

Consulta(u, metodo, termino) ==
    LET r == CASE metodo = "get_available_books" -> get_available_books(u)
               [] metodo = "get_loaned_books" -> get_loaned_books(u)
               [] metodo = "search_books_by_title" ->
                     search_books_by_title(u, termino)
               [] OTHER -> search_books_by_author(u, termino)
        Prestado(b) == ~esta_disponible(b)
        prestados == SelectSeq(r.val, Prestado)
    IN /\ UNCHANGED <<cache, session, now, nextId, backend>>
       /\ Termina(r, [Resp(metodo, "ok") EXCEPT
                         !.valor = termino,
                         !.total = Len(r.val),
                         !.mostrados = [i \in 1..Len(r.val) |-> r.val[i].id],
                         !.prestados = [i \in 1..Len(prestados) |->
                                           prestados[i].id]])

\* BookService.delete_book from the repositories' state S: the state it ends
\* with, the return taken and the book it found
BookService_delete_book(S, u, book_id, title) ==
    LET f == IF book_id # 0
             THEN BookRepository_find_by_id(S, u, book_id)
             ELSE IF title # <<>>
             THEN BookRepository_find_by_title(S, u, Strip(title))
             ELSE [st |-> S.st, mc |-> S.mc, val |-> <<>>]
        book == f.val[1]
        a == LoanRepository_find_by_book_id(f, u, book.id)
        d == BookRepository_delete(a, u, book.id)
    IN IF f.val = <<>>
       THEN [st |-> f.st, mc |-> f.mc, kind |-> "no_encontrado",
             titulo |-> <<>>, id |-> 0]
       ELSE IF a.val # <<>>
       THEN [st |-> a.st, mc |-> a.mc, kind |-> "prestado",
             titulo |-> book.titulo, id |-> book.id]
       ELSE [st |-> d.st, mc |-> d.mc,
             kind |-> IF d.val THEN "ok" ELSE "error",
             titulo |-> book.titulo, id |-> book.id]

delete_book(u, book_id, title) ==
    /\ UNCHANGED <<cache, session, now, nextId, backend>>
    /\ \E d \in {BookService_delete_book(Estado0, u, book_id, title)} :
          Termina(d, [Resp("delete_book", d.kind) EXCEPT
                         !.valor = title, !.titulo = d.titulo, !.id = d.id])

Book_prestar(book) ==
    IF book.estado = "prestado" THEN book
    ELSE [book EXCEPT !.estado = "prestado", !.total_prestamos = @ + 1]

Book_devolver(book) ==
    IF book.estado = "disponible" THEN book
    ELSE [book EXCEPT !.estado = "disponible"]

create_loan(u, book_title, book_id, person_name) ==
    /\ UNCHANGED <<cache, session, now, backend>>
    /\ LET f == IF book_id # 0
                THEN BookRepository_find_by_id(Estado0, u, book_id)
                ELSE IF book_title # <<>>
                THEN BookRepository_find_by_title(Estado0, u, Strip(book_title))
                ELSE [st |-> store, mc |-> mcache, val |-> <<>>]
           varios == book_id = 0 /\ Len(f.val) > 1
           book == f.val[1]
           x == LoanRepository_find_by_book_id(f, u, book.id)
           al == LoanRepository_find_active_loans(x, u)
           loan ==
               [id |-> nextId,
                libro_id |-> book.id,
                titulo |-> Strip(book.titulo),
                persona |-> IF Strip(person_name) # <<>>
                            THEN Strip(person_name) ELSE UnAmigo,
                fecha_prestamo |-> now,
                fecha_limite |-> now + Dias(default_loan_days),
                fecha_devolucion |-> -1,
                estado |-> "activo",
                dias_prestamo |-> default_loan_days]
           s1 == LoanRepository_save_loan(al, u, loan)
           s2 == BookRepository_save(s1, u, Book_prestar(book))
       IN IF varios
          THEN /\ Termina(f, Resp("create_loan", "varios"))
               /\ UNCHANGED nextId
          ELSE IF f.val = <<>>
          THEN /\ Termina(f, Resp("create_loan", "no_encontrado"))
               /\ UNCHANGED nextId
          ELSE IF x.val # <<>> /\ esta_activo(x.val[1])
          THEN /\ Termina(x, [Resp("create_loan", "ya_prestado")
                                 EXCEPT !.titulo = book.titulo,
                                        !.id = x.val[1].id])
               /\ UNCHANGED nextId
          ELSE IF Len(al.val) >= max_loans_per_user
          THEN /\ Termina(al, Resp("create_loan", "limite"))
               /\ UNCHANGED nextId
          ELSE /\ nextId <= MaxIds
               /\ Termina(s2, [Resp("create_loan", "ok")
                                  EXCEPT !.titulo = book.titulo,
                                         !.id = loan.id])
               /\ nextId' = nextId + 1

\* LoanService.return_loan from the repositories' state S: the state it ends
\* with, the return taken and the loan as it was returned
LoanService_return_loan(S, u, book_title, loan_id) ==
    LET al == LoanRepository_find_active_loans(S, u)
        Es(l) == l.id = loan_id
        n == First(al.val, Es)
        f == IF loan_id # 0
             THEN [al EXCEPT !.val = IF n = 0 THEN <<>> ELSE <<al.val[n]>>]
             ELSE IF book_title # <<>>
             THEN LoanRepository_find_by_title(S, u, Strip(book_title))
             ELSE [st |-> S.st, mc |-> S.mc, val |-> <<>>]
        loan == Loan_devolver(f.val[1])
        b == BookRepository_find_by_id(f, u, loan.libro_id)
        s1 == IF b.val = <<>> THEN b
              ELSE BookRepository_save(b, u, Book_devolver(b.val[1]))
        s2 == LoanRepository_complete_loan(s1, u, loan.id)
    IN IF f.val = <<>> \/ ~esta_activo(f.val[1])
       THEN [st |-> f.st, mc |-> f.mc, kind |-> "no_encontrado",
             titulo |-> book_title, id |-> loan_id, a_tiempo |-> FALSE]
       ELSE [st |-> s2.st, mc |-> s2.mc, kind |-> "ok",
             titulo |-> loan.titulo, id |-> loan.id,
             a_tiempo |-> fue_devuelto_a_tiempo(loan)]

return_loan(u, book_title, loan_id) ==
    /\ UNCHANGED <<cache, session, now, nextId, backend>>
    /\ \E d \in {LoanService_return_loan(Estado0, u, book_title, loan_id)} :
          Termina(d, [Resp("return_loan", d.kind) EXCEPT
                         !.titulo = d.titulo, !.id = d.id,
                         !.a_tiempo = d.a_tiempo])

Init ==
    /\ store = [u \in Users |-> <<>>]
    /\ cache = [u \in Users |-> <<>>]
    /\ mcache = [k \in CacheKeys |-> <<>>]
    /\ session = SinSesion
    /\ now = 0
    /\ nextId = 1
    /\ backend = "stub"
    /\ resp = Resp("Init", "ok")

InitAdaptador ==
    /\ store = [u \in Users |-> <<>>]
    /\ cache = [u \in Users |-> <<>>]
    /\ mcache = [k \in CacheKeys |-> <<>>]
    /\ session = SinSesion
    /\ now = 0
    /\ nextId = 1
    /\ backend = "adapter"
    /\ resp = Resp("Init", "ok")

----------------------------------------------------------------------------
(* helpers/utils.py: ValidationUtils, and handlers/add_book_handler.py     *)

MaxTitulo == 200
MaxAutor == 100

validate_book_title(title) ==
    title # <<>> /\ Strip(title) # <<>> /\ Len(Strip(title)) <= MaxTitulo

validate_author_name(author) ==
    author = <<>> \/ Len(Strip(author)) <= MaxAutor

TituloLargo == [i \in 1..(MaxTitulo + 1) |-> "a"]
AutorLargo == [i \in 1..(MaxAutor + 1) |-> "x"]

\* _create_book and _process_type_response: the book goes to the service,
\* the session is emptied, the count of books is read for the reply
CrearLibro(u, r, titulo, autor, tipo) ==
    LET a == BookService_add_book(Estado0, u, titulo, autor, tipo)
        g == get_all_books_desde(a, u)
    IN /\ session' = SinSesion
       /\ a.kind = "ok" => nextId <= MaxIds
       /\ nextId' = IF a.kind = "ok" THEN nextId + 1 ELSE nextId
       /\ Termina(IF a.kind = "ok" THEN g ELSE a,
                  [r EXCEPT !.kind = a.kind, !.titulo = a.titulo,
                            !.id = a.id,
                            !.total = IF a.kind = "ok" THEN Len(g.val) ELSE 0])

AddBookIntentHandler(u, s_titulo, s_autor, s_tipo) ==
    LET titulo == ValorDeSesion(s_titulo, "titulo_temp")
        autor == ValorDeSesion(s_autor, "autor_temp")
        tipo == ValorDeSesion(s_tipo, "tipo_temp")
        autor_n == IF Lower(autor) \in {NoSe, NoSe_sin, NoLoSe}
                   THEN Desconocido ELSE autor
        tipo_n == IF Lower(tipo) \in {NoSe, NoSe_sin, NoLoSe}
                  THEN SinCategoria ELSE tipo
        s1 == Put(Put(session, "titulo_temp", titulo), "agregando_libro", TRUE)
        s2 == Put(s1, "autor_temp", autor_n)
        R(k) == [Resp("AddBook", k) EXCEPT !.valor = s_titulo \o s_autor \o s_tipo]
    IN /\ UNCHANGED <<cache, now, backend>>
       /\ IF titulo = <<>>
          THEN /\ session' = Put(Put(session, "agregando_libro", TRUE),
                                 "esperando", "titulo")
               /\ resp' = R("pedir_titulo")
               /\ UNCHANGED <<store, mcache, nextId>>
          ELSE IF ~validate_book_title(titulo)
          THEN /\ session' = SinSesion
               /\ resp' = R("validacion_reinicio")
               /\ UNCHANGED <<store, mcache, nextId>>
          ELSE IF autor = <<>>
          THEN /\ session' = Put(s1, "esperando", "autor")
               /\ resp' = [R("pedir_autor") EXCEPT !.titulo = titulo]
               /\ UNCHANGED <<store, mcache, nextId>>
          ELSE IF ~validate_author_name(autor)
          THEN /\ session' = SinSesion
               /\ resp' = R("validacion_reinicio")
               /\ UNCHANGED <<store, mcache, nextId>>
          ELSE IF tipo = <<>>
          THEN /\ session' = Put(s2, "esperando", "tipo")
               /\ resp' = [R("pedir_tipo") EXCEPT !.titulo = titulo]
               /\ UNCHANGED <<store, mcache, nextId>>
          ELSE CrearLibro(u, R(""), titulo, autor_n, tipo_n)

\* ContinueAddingBookHandler._handle_validation_error
Validacion(esperando) ==
    CASE esperando = "titulo" -> "validacion_titulo"
      [] esperando = "autor" -> "validacion_autor"
      [] esperando = "tipo" -> "validacion_tipo"
      [] OTHER -> "validacion_reinicio"

ContinueAddingBookHandler(u, intent_name, valor) ==
    LET esperando == Get(session, "esperando", "")
        R(k) == [Resp("ContinueAddingBook", k) EXCEPT !.valor = valor]
    IN /\ Agregando
       /\ UNCHANGED <<cache, now, backend>>
       /\ IF esperando = "titulo"
          THEN /\ UNCHANGED <<store, mcache, nextId>>
               /\ IF valor = <<>>
                  THEN /\ session' = session
                       /\ resp' = R("pedir_titulo")
                  ELSE IF ~validate_book_title(valor)
                  THEN /\ session' = session
                       /\ resp' = R(Validacion(esperando))
                  ELSE /\ session' = Put(Put(session, "titulo_temp", valor),
                                         "esperando", "autor")
                       /\ resp' = [R("pedir_autor") EXCEPT !.titulo = valor]
          ELSE IF esperando = "autor"
          THEN /\ UNCHANGED <<store, mcache, nextId>>
               /\ session' =
                    Put(Put(session, "autor_temp",
                            Normalizar(valor,
                               {NoSe, NoSe_sin, NoLoSe, NoLoSe_sin,
                                NoSe \o ElAutor, NoSe_sin \o ElAutor},
                               ElAutorEs, Desconocido)),
                        "esperando", "tipo")
               /\ resp' = [R("pedir_tipo")
                              EXCEPT !.titulo = Get(session, "titulo_temp", <<>>)]
          ELSE IF esperando = "tipo"
          THEN CrearLibro(u, R(""),
                  Get(session, "titulo_temp", <<>>),
                  Get(session, "autor_temp", Desconocido),
                  Normalizar(valor,
                     {NoSe, NoSe_sin, NoLoSe, NoLoSe_sin,
                      NoSe \o ElTipo, NoSe_sin \o ElTipo},
                     ElTipoEs, SinCategoria))
          ELSE /\ session' = SinSesion
               /\ resp' = R("problema")
               /\ UNCHANGED <<store, mcache, nextId>>

\* the add-book dialogue of add_book_handler.py with answers that are too long
NextValidacion ==
    \/ \E u \in Users, t \in {<<>>, T_ab, TituloLargo},
          a \in {<<>>, V_x, AutorLargo}, c \in {<<>>, V_n} :
             AddBookIntentHandler(u, t, a, c)
    \/ \E u \in Users, i \in Intents, v \in {<<>>, T_ab, TituloLargo} :
          ContinueAddingBookHandler(u, i, v)

SpecValidacion == Init /\ [][NextValidacion]_vars

----------------------------------------------------------------------------
(* The service layer: calls of BookService and LoanService while time passes *)

TitulosServicio == {T_ab, T_ab_sp, T_a}

Ids == 0..MaxIds

\* a request names a book or a loan by its id or by a title
Peticiones ==
    {<<0, <<>>>>} \cup {<<i, <<>>>> : i \in 1..MaxIds}
                 \cup {<<0, t>> : t \in {T_ab, T_a}}

\* the instants around the expiry of a cache entry and past a due date
InstantesServicio ==
    {0, BookRepository_cache_ttl, BookRepository_cache_ttl + 1,
     Dias(default_loan_days) + 1}

TickServicio == Avanza(InstantesServicio)

NextServicios ==
    \/ TickServicio
    \/ \E u \in Users, t \in TitulosServicio \cup {<<>>} :
          add_book(u, t, <<>>, <<>>)
    \/ \E u \in Users : GetAllBooks(u)
    \/ \E u \in Users, p \in Peticiones : delete_book(u, p[1], p[2])
    \/ \E u \in Users, p \in Peticiones : create_loan(u, p[2], p[1], <<>>)
    \/ \E u \in Users, p \in Peticiones : return_loan(u, p[2], p[1])

\* the service layer as the source has it
Spec == Init /\ [][NextServicios]_vars

\* the service layer over repositories that load and save through the adapter
SpecAdaptador == InitAdaptador /\ [][NextServicios]_vars

----------------------------------------------------------------------------
(* The skill as lambda_function.py registers it: one Alexa request per step *)

\* books are added in one utterance, lent and returned while time passes
TitulosPrestamo == {T_ab, T_a}

NextLambda ==
    \/ Tick
    \/ \E u \in Users, t \in TitulosPrestamo :
          AgregarLibroIntentHandler(u, t, V_x, V_n)
    \/ \E u \in Users, t \in TitulosPrestamo \cup {<<>>}, p \in Personas :
          PrestarLibroIntentHandler(u, t, p)
    \/ \E u \in Users, t \in TitulosPrestamo \cup {<<>>}, i \in Ids :
          DevolverLibroIntentHandler(u, t, i)

SpecLambda == Init /\ [][NextLambda]_vars

\* the add-book dialogue, one field per turn
NextDialogo ==
    \/ \E u \in Users, t \in {<<>>, T_ab}, a \in {<<>>, V_x},
          c \in {<<>>, V_n} : AgregarLibroIntentHandler(u, t, a, c)
    \/ \E u \in Users, i \in Intents, v \in Respuestas :
          ContinuarAgregarHandler(u, i, v)

SpecDialogo == Init /\ [][NextDialogo]_vars

\* the slots of an AgregarLibro request: none of them or all three
DichosDeUnaVez == {<<<<>>, <<>>, <<>>>>, <<T_ab, V_x, V_n>>}

\* the same dialogue with turns in which the persistent attributes raise and
\* turns in which the user cancels
NextDialogoFallos ==
    \/ \E u \in Users, d \in DichosDeUnaVez :
          AgregarLibroIntentHandler(u, d[1], d[2], d[3])
    \/ \E u \in Users, i \in Intents, v \in {<<>>, T_ab, T_a} :
          ContinuarAgregarHandler(u, i, v)
    \/ \E u \in Users, i \in Intents, v \in {<<>>, T_ab, T_a} :
          ContinuarAgregarHandler_excepcion(u, i, v)
    \/ \E u \in Users, d \in DichosDeUnaVez :
          AgregarLibroIntentHandler_excepcion(u, d[1], d[2], d[3])
    \/ CancelOrStopIntentHandler

SpecDialogoFallos == Init /\ [][NextDialogoFallos]_vars

\* the add-book dialogue with answers that are a prefix and nothing after it
RespuestasConPrefijo == {T_ab, NoSe, ElTipoEs}

NextPrefijos ==
    \/ \E u \in Users, d \in DichosDeUnaVez :
          AgregarLibroIntentHandler(u, d[1], d[2], d[3])
    \/ \E u \in Users, i \in Intents, v \in RespuestasConPrefijo :
          ContinuarAgregarHandler(u, i, v)

SpecPrefijos == Init /\ [][NextPrefijos]_vars

\* a library of one book more than the loan limit, all but two of them lent
\* at time 0 by PrestarLibro requests; the container starts cold
Letras ==
    <<"a", "b", "c", "d", "e", "f", "g", "h", "i", "j", "k", "l", "m", "n",
      "o", "p", "q", "r", "s", "t", "u", "v", "w">>

LibrosLimite == max_loans_per_user + 1

TituloLimite(i) == <<"l", Letras[i]>>

LibroLimite(i) ==
    [id |-> MaxIds + i, titulo |-> TituloLimite(i), autor |-> Desconocido,
     tipo |-> SinCategoria,
     estado |-> IF i < max_loans_per_user THEN "prestado" ELSE "disponible",
     total_prestamos |-> IF i < max_loans_per_user THEN 1 ELSE 0]

PrestamoLimite(i) ==
    [id |-> MaxIds + LibrosLimite + i, libro_id |-> MaxIds + i,
     titulo |-> TituloLimite(i), persona |-> UnAmigo, fecha_prestamo |-> 0,
     fecha_limite |-> Dias(DIAS_PRESTAMO), estado |-> "activo"]

InitLimite ==
    /\ store = [u \in Users |->
                  <<[libros_disponibles |->
                        [i \in 1..LibrosLimite |-> LibroLimite(i)],
                     prestamos_activos |->
                        [i \in 1..(max_loans_per_user - 1) |-> PrestamoLimite(i)],
                     historial_prestamos |-> <<>>]>>]
    /\ cache = [u \in Users |-> <<>>]
    /\ mcache = [k \in CacheKeys |-> <<>>]
    /\ session = SinSesion
    /\ now = 0
    /\ nextId = 1
    /\ backend = "stub"
    /\ resp = Resp("Init", "ok")

NextLimite ==
    \/ \E u \in Users, i \in 1..LibrosLimite :
          PrestarLibroIntentHandler(u, TituloLimite(i), <<>>)
    \/ \E u \in Users, i \in max_loans_per_user..LibrosLimite :
          DevolverLibroIntentHandler(u, TituloLimite(i), 0)

SpecLimite == InitLimite /\ [][NextLimite]_vars

----------------------------------------------------------------------------
(* handlers/listar_handler.py and handlers/siguiente_pagina_handler.py: the  *)
(* listing of the service layer, one page per turn.  A filter slot is "" when *)
(* absent; the autor slot is never filled.                                   *)

\* libros[inicio:fin]
Slice(seq, inicio, fin) ==
    LET tope == IF fin < Len(seq) THEN fin ELSE Len(seq)
    IN [i \in 1..(IF tope > inicio THEN tope - inicio ELSE 0) |-> seq[inicio + i]]

\* a page end that ignores the length of the list
fin_sin_tope(inicio, n) == inicio + LIBROS_POR_PAGINA

\* min(inicio + LIBROS_POR_PAGINA, len(libros))
fin_de_pagina(inicio, n) ==
    IF inicio + LIBROS_POR_PAGINA < n THEN inicio + LIBROS_POR_PAGINA ELSE n

Filtros == {"", "prestados", "disponibles"}

\* ListarLibrosHandler._filtrar without an author
ListarLibrosHandler_filtrar(u, filtro) ==
    LET r == get_all_books(u)
        Disponible(b) == b.estado = "disponible"
        Prestado(b) == ~Disponible(b)
    IN IF filtro \in {"prestados", "prestado"}
       THEN [r EXCEPT !.val = SelectSeq(r.val, Prestado)]
       ELSE IF filtro \in {"disponibles", "disponible"}
       THEN [r EXCEPT !.val = SelectSeq(r.val, Disponible)]
       ELSE r

\* the reply that shows libros[inicio:fin] and the session it leaves
Pagina(h, r, pagina, filtro) ==
    LET libros == r.val
        inicio == pagina * LIBROS_POR_PAGINA
        fin == fin_de_pagina(inicio, Len(libros))
        libros_pagina == Slice(libros, inicio, fin)
        R(k) == [Resp(h, k) EXCEPT
                    !.desde = inicio + 1, !.hasta = fin, !.total = Len(libros),
                    !.mostrados = [i \in 1..Len(libros_pagina) |->
                                      libros_pagina[i].id]]
    IN IF fin < Len(libros)
       THEN /\ session' = Put(Put(Put(Put(session,
                              "pagina_libros", pagina + 1),
                              "listando_libros", TRUE),
                              "autor", ""), "filtro", filtro)
            /\ Termina(r, R("pagina"))
       ELSE /\ session' = Put(Put(session, "pagina_libros", 0),
                              "listando_libros", FALSE)
            /\ Termina(r, R("fin"))

ListarLibrosHandler(u, filtro_tipo) ==
    LET filtro == IF filtro_tipo = "" /\ Get(session, "listando_libros", FALSE)
                  THEN Get(session, "filtro", "") ELSE filtro_tipo
        r == ListarLibrosHandler_filtrar(u, filtro)
        libros == r.val
        pagina == Get(session, "pagina_libros", 0)
    IN /\ UNCHANGED <<cache, now, nextId, backend>>
       /\ IF libros = <<>>
          THEN /\ Termina(r, Resp("ListarLibros", "vacio"))
               /\ UNCHANGED session
          ELSE IF Len(libros) <= LIBROS_POR_PAGINA
          THEN /\ session' = Put(Put(session, "pagina_libros", 0),
                                 "listando_libros", FALSE)
               /\ Termina(r, [Resp("ListarLibros", "todos") EXCEPT
                                 !.desde = 1, !.hasta = Len(libros),
                                 !.total = Len(libros),
                                 !.mostrados = [i \in 1..Len(libros) |->
                                                   libros[i].id]])
          ELSE Pagina("ListarLibros", r, pagina, filtro)

SiguientePaginaHandler(u) ==
    LET pagina == Get(session, "pagina_libros", 0)
        filtro == Get(session, "filtro", "")
        r == ListarLibrosHandler_filtrar(u, filtro)
        inicio == pagina * LIBROS_POR_PAGINA
    IN /\ UNCHANGED <<cache, now, nextId, backend>>
       /\ IF ~Get(session, "listando_libros", FALSE)
          THEN /\ resp' = Resp("SiguientePagina", "no_listando")
               /\ UNCHANGED <<store, mcache, session>>
          ELSE IF Slice(r.val, inicio, fin_de_pagina(inicio, Len(r.val))) = <<>>
          THEN /\ session' = Put(Put(session, "pagina_libros", 0),
                                 "listando_libros", FALSE)
               /\ Termina(r, Resp("SiguientePagina", "sin_mas"))
          ELSE Pagina("SiguientePagina", r, pagina, filtro)

\* libraries of N books, the even ones of the first twenty lent at time 0
TamanosListado ==
    {LIBROS_POR_PAGINA + 1, 2 * LIBROS_POR_PAGINA, 2 * LIBROS_POR_PAGINA + 3}

PrestadoListado(i) == i % 2 = 0 /\ i <= 2 * max_loans_per_user

LibroListado(i) ==
    [id |-> MaxIds + i, titulo |-> TituloLimite(i), autor |-> Desconocido,
     tipo |-> SinCategoria,
     estado |-> IF PrestadoListado(i) THEN "prestado" ELSE "disponible",
     total_prestamos |-> IF PrestadoListado(i) THEN 1 ELSE 0]

PrestamoListado(i) ==
    [id |-> MaxIds + Len(Letras) + i, libro_id |-> MaxIds + i,
     titulo |-> TituloLimite(i), persona |-> UnAmigo, fecha_prestamo |-> 0,
     fecha_limite |-> Dias(default_loan_days), fecha_devolucion |-> -1,
     estado |-> "activo", dias_prestamo |-> default_loan_days]

InitListado ==
    /\ \E n \in TamanosListado :
          store = [u \in Users |->
                     <<[libros_disponibles |-> [i \in 1..n |-> LibroListado(i)],
                        prestamos_activos |->
                           SelectSeq([i \in 1..n |-> PrestamoListado(i)],
                                     LAMBDA p : PrestadoListado(
                                                   p.libro_id - MaxIds)),
                        historial_prestamos |-> <<>>]>>]
    /\ cache = [u \in Users |-> <<>>]
    /\ mcache = [k \in CacheKeys |-> <<>>]
    /\ session = SinSesion
    /\ now = 0
    /\ nextId = 1
    /\ backend = "adapter"
    /\ resp = Resp("Init", "ok")

NextListado ==
    \/ TickServicio
    \/ \E u \in Users, f \in Filtros : ListarLibrosHandler(u, f)
    \/ \E u \in Users : SiguientePaginaHandler(u)

SpecListado == InitListado /\ [][NextListado]_vars

\* The turn of a listing handler in which the call of the service raises: the
\* except clause of ListarLibrosHandler empties the session, the one of
\* SiguientePaginaHandler answers and leaves the session as it is.
ListarLibrosHandler_excepcion(u, filtro_tipo) ==
    /\ session' = SinSesion
    /\ resp' = Resp("ListarLibros", "error")
    /\ UNCHANGED <<store, cache, mcache, now, nextId, backend>>

SiguientePaginaHandler_excepcion(u) ==
    /\ Get(session, "listando_libros", FALSE)
    /\ resp' = Resp("SiguientePagina", "error")
    /\ UNCHANGED <<store, cache, mcache, session, now, nextId, backend>>

NextListadoFallos ==
    \/ TickServicio
    \/ \E u \in Users, f \in Filtros : ListarLibrosHandler(u, f)
    \/ \E u \in Users : SiguientePaginaHandler(u)
    \/ \E u \in Users, f \in Filtros : ListarLibrosHandler_excepcion(u, f)
    \/ \E u \in Users : SiguientePaginaHandler_excepcion(u)

SpecListadoFallos == InitListado /\ [][NextListadoFallos]_vars

----------------------------------------------------------------------------
(* lambda_function.py: ListarLibrosIntentHandler, SiguientePaginaIntentHandler *)
(* and SalirListadoIntentHandler.  The autor slot is never filled.            *)

\* the try body of ListarLibrosIntentHandler.handle, for the handler h that
\* runs it and the value of the filtro_tipo slot of the request
ListarLibrosIntentHandler_handle(u, h, filtro) ==
    LET user_data == sincronizar_estados_libros(get_user_data(u))
        todos_libros == user_data.libros_disponibles
        prestamos == user_data.prestamos_activos
        ids_prestados == {prestamos[i].libro_id : i \in 1..Len(prestamos)}
        Prestado(l) == l.id \in ids_prestados
        Disponible(l) == l.id \notin ids_prestados
        libros_filtrados ==
            IF filtro \in {"prestados", "prestado"}
            THEN SelectSeq(todos_libros, Prestado)
            ELSE IF filtro \in {"disponibles", "disponible"}
            THEN SelectSeq(todos_libros, Disponible)
            ELSE todos_libros
        n == Len(libros_filtrados)
        pagina_actual == Get(session, "pagina_libros", 0)
        inicio == pagina_actual * LIBROS_POR_PAGINA
        fin == fin_de_pagina(inicio, n)
        libros_pagina == Slice(libros_filtrados, inicio, fin)
        R(k, l) == [Resp(h, k) EXCEPT
                       !.valor = filtro, !.total = n,
                       !.mostrados = IdsDeLista(l)]
    IN /\ save_user_data(u, user_data)
       /\ IF todos_libros = <<>>
          THEN /\ resp' = Resp(h, "sin_libros")
               /\ UNCHANGED session
          ELSE IF libros_filtrados = <<>>
          THEN /\ resp' = R("vacio", <<>>)
               /\ UNCHANGED session
          ELSE IF n <= LIBROS_POR_PAGINA
          THEN /\ resp' = [R("todos", libros_filtrados) EXCEPT
                              !.desde = 1, !.hasta = n]
               /\ session' = Put(session, "pagina_libros", 0)
          ELSE IF fin < n
          THEN /\ resp' = [R("pagina", libros_pagina) EXCEPT
                              !.desde = inicio + 1, !.hasta = fin]
               /\ session' = Put(Put(Put(session,
                                "pagina_libros", pagina_actual + 1),
                                "listando_libros", TRUE),
                                "libros_filtrados", IdsDeLista(libros_filtrados))
          ELSE /\ resp' = [R("fin", libros_pagina) EXCEPT
                              !.desde = inicio + 1, !.hasta = fin]
               /\ session' = Put(Put(session, "pagina_libros", 0),
                                 "listando_libros", FALSE)

ListarLibrosIntentHandler(u, filtro_tipo) ==
    /\ ~Agregando
    /\ UNCHANGED <<mcache, now, nextId, backend>>
    /\ ListarLibrosIntentHandler_handle(u, "ListarLibrosIntent", filtro_tipo)

\* The request of SiguientePaginaIntent carries no value for filtro_tipo.
\* ask_utils.get_slot_value, which is not part of the repository, either
\* returns None for it (the slot is in the request, unfilled) or raises (the
\* request has no such slot), and then the except clause of
\* ListarLibrosIntentHandler.handle empties the session.
SiguientePaginaIntentHandler(u) ==
    /\ ~Agregando
    /\ UNCHANGED <<mcache, now, nextId, backend>>
    /\ IF ~Get(session, "listando_libros", FALSE)
       THEN /\ resp' = Resp("SiguientePaginaIntent", "no_listando")
            /\ UNCHANGED <<store, cache, session>>
       ELSE \/ ListarLibrosIntentHandler_handle(u, "SiguientePaginaIntent", "")
            \/ /\ resp' = Resp("SiguientePaginaIntent", "error")
               /\ session' = SinSesion
               /\ UNCHANGED <<store, cache>>

SalirListadoIntentHandler ==
    /\ ~Agregando
    /\ session' = Put(Put(session, "pagina_libros", 0),
                      "listando_libros", FALSE)
    /\ resp' = Resp("SalirListadoIntent", "ok")
    /\ UNCHANGED <<store, cache, mcache, now, nextId, backend>>

NextPaginas ==
    \/ Tick
    \/ \E u \in Users, f \in Filtros : ListarLibrosIntentHandler(u, f)
    \/ \E u \in Users : SiguientePaginaIntentHandler(u)
    \/ SalirListadoIntentHandler

SpecPaginas == InitListado /\ [][NextPaginas]_vars

----------------------------------------------------------------------------
(* The queries of BookService between loans and returns that leave the      *)
(* estado stored with a book behind the active-loan list                    *)

T_des == <<"d", "e", "s">>

InstantesConsultas == {0, Dias(default_loan_days) + 1}

NextConsultas ==
    \/ Avanza(InstantesConsultas)
    \/ \E u \in Users, t \in {T_ab, T_a} : add_book(u, t, <<>>, <<>>)
    \/ \E u \in Users, i \in 1..MaxIds : create_loan(u, <<>>, i, <<>>)
    \/ \E u \in Users, i \in 1..MaxIds : return_loan(u, <<>>, i)
    \/ \E u \in Users : GetAllBooks(u)
    \/ \E u \in Users, m \in Consultas, t \in {T_a, T_des} : Consulta(u, m, t)

SpecConsultas == InitAdaptador /\ [][NextConsultas]_vars

----------------------------------------------------------------------------
(* services/loan_service.py: the methods that read the active loans or      *)
(* change their due date                                                    *)

\* find_active_loans updates the estado of each loan it builds, and
\* get_active_loans updates it again
LoanService_get_active_loans(S, u) ==
    LET r == LoanRepository_find_active_loans(S, u)
    IN [r EXCEPT !.val = [i \in 1..Len(r.val) |-> actualizar_estado(r.val[i])]]

LoanService_get_overdue_loans(S, u) ==
    LET r == LoanService_get_active_loans(S, u)
    IN [r EXCEPT !.val = SelectSeq(r.val, esta_vencido)]

get_active_loans(u) ==
    LET r == LoanService_get_active_loans(Estado0, u)
        Vencido(l) == l.estado = "vencido"
    IN /\ UNCHANGED <<cache, session, now, nextId, backend>>
       /\ Termina(r, [Resp("get_active_loans", "ok") EXCEPT
                         !.total = Len(r.val),
                         !.mostrados = IdsDeLista(r.val),
                         !.prestados = IdsDeLista(SelectSeq(r.val, Vencido))])

get_overdue_loans(u) ==
    LET r == LoanService_get_overdue_loans(Estado0, u)
    IN /\ UNCHANGED <<cache, session, now, nextId, backend>>
       /\ Termina(r, [Resp("get_overdue_loans", "ok") EXCEPT
                         !.total = Len(r.val),
                         !.mostrados = IdsDeLista(r.val)])

\* the longest loan the exploration extends to
MaxDiasPrestamo == 14

extend_loan(u, loan_id, additional_days) ==
    LET r == LoanService_get_active_loans(Estado0, u)
        Es(l) == l.id = loan_id
        n == First(r.val, Es)
        loan == [r.val[n] EXCEPT !.fecha_limite = @ + Dias(additional_days),
                                 !.dias_prestamo = @ + additional_days]
        R(k) == [Resp("extend_loan", k) EXCEPT !.id = loan_id]
    IN /\ UNCHANGED <<cache, session, now, nextId, backend>>
       /\ IF n = 0
          THEN Termina(r, R("no_encontrado"))
          ELSE IF additional_days <= 0
          THEN Termina(r, R("dias_invalidos"))
          ELSE /\ loan.dias_prestamo <= MaxDiasPrestamo
               /\ Termina(LoanRepository_save_loan(r, u, loan), R("ok"))

NextPrestamos ==
    \/ Avanza(InstantesConsultas)
    \/ \E u \in Users, t \in {T_ab, T_a} : add_book(u, t, <<>>, <<>>)
    \/ \E u \in Users, i \in 1..MaxIds : create_loan(u, <<>>, i, <<>>)
    \/ \E u \in Users, i \in 1..MaxIds : return_loan(u, <<>>, i)
    \/ \E u \in Users : get_active_loans(u)
    \/ \E u \in Users : get_overdue_loans(u)
    \/ \E u \in Users, i \in 1..MaxIds, d \in {0, default_loan_days} :
          extend_loan(u, i, d)

SpecPrestamos == InitAdaptador /\ [][NextPrestamos]_vars

----------------------------------------------------------------------------
(* handlers/delete_book_handler.py: DeleteBookIntentHandler and              *)
(* ConfirmDeleteHandler                                                      *)

\* session_attrs.pop(k, None)
Pop(s, k) == [x \in DOMAIN s \ {k} |-> s[x]]

SinConfirmacion(s) == Pop(Pop(s, "confirming_delete"), "delete_book_title")

\* _request_confirmation, after the search that left the repositories in f
DeleteBookIntentHandler_request_confirmation(f, u, book, h, valor) ==
    \E al \in {LoanService_get_active_loans(f, u)} :
       LET DelLibro(l) == l.libro_id = book.id
           n == First(al.val, DelLibro)
       IN /\ session' = Put(Put(session, "confirming_delete", book.id),
                            "delete_book_title", book.titulo)
          /\ Termina(al, [Resp(h, "confirmar") EXCEPT
                             !.valor = valor,
                             !.titulo = book.titulo, !.id = book.id,
                             !.prestados = IF n = 0 THEN <<>>
                                           ELSE <<al.val[n].id>>])

\* the loop of _process_confirmation that returns the loan of the book
DeleteBookIntentHandler_cancelar_prestamo(S, u, book_id) ==
    LET DelLibro(l) == l.libro_id = book_id
        n == First(S.val, DelLibro)
    IN IF n = 0 THEN [st |-> S.st, mc |-> S.mc]
       ELSE LoanService_return_loan(S, u, <<>>, S.val[n].id)

\* _process_confirmation
DeleteBookIntentHandler_process_confirmation(f, u, book, h, valor) ==
    /\ session' = SinConfirmacion(session)
    /\ \E d \in {BookService_delete_book(f, u, book.id, <<>>)} :
          IF d.kind = "ok"
          THEN \E al \in {LoanService_get_active_loans(d, u)} :
               \E r \in {DeleteBookIntentHandler_cancelar_prestamo(
                            al, u, book.id)} :
               \E g \in {get_all_books_desde(r, u)} :
                  Termina(g, [Resp(h, "eliminado") EXCEPT
                                 !.valor = valor,
                                 !.titulo = book.titulo, !.id = book.id,
                                 !.total = Len(g.val)])
          ELSE Termina(d, [Resp(h, "no_eliminado") EXCEPT
                              !.valor = valor,
                              !.titulo = book.titulo, !.id = book.id])

\* the try body of DeleteBookIntentHandler.handle, for the handler h that
\* runs it and the value of the titulo slot of the request
DeleteBookIntentHandler_handle(u, h, valor, titulo) ==
    LET R(k) == [Resp(h, k) EXCEPT !.valor = valor]
    IN IF titulo = <<>>
       THEN /\ resp' = R("pedir_titulo")
            /\ UNCHANGED <<store, mcache, session>>
       ELSE \E f \in {search_books_by_title(u, titulo)} :
            IF f.val = <<>>
            THEN /\ Termina(get_all_books_desde(f, u), R("no_encontrado"))
                 /\ UNCHANGED session
            ELSE IF Len(f.val) > 1
            THEN /\ Termina(f, R("varios"))
                 /\ UNCHANGED session
            ELSE IF Get(session, "confirming_delete", 0) = f.val[1].id
            THEN DeleteBookIntentHandler_process_confirmation(
                    f, u, f.val[1], h, valor)
            ELSE DeleteBookIntentHandler_request_confirmation(
                    f, u, f.val[1], h, valor)

DeleteBookIntentHandler(u, titulo) ==
    /\ UNCHANGED <<cache, now, nextId, backend>>
    /\ DeleteBookIntentHandler_handle(u, "EliminarLibro", titulo, titulo)

Si == <<"s", "í">>
No == <<"n", "o">>

\* The request of AMAZON.YesIntent carries no titulo.  ask_utils.get_slot_value,
\* which is not part of the repository, either returns None for it or raises,
\* and then _handle_error of DeleteBookIntentHandler takes the confirmation
\* out of the session.
ConfirmDeleteHandler(u, yes) ==
    /\ "confirming_delete" \in DOMAIN session
    /\ UNCHANGED <<cache, now, nextId, backend>>
    /\ IF yes
       THEN \/ DeleteBookIntentHandler_handle(u, "ConfirmDelete", Si, <<>>)
            \/ /\ resp' = [Resp("ConfirmDelete", "error") EXCEPT !.valor = Si]
               /\ session' = SinConfirmacion(session)
               /\ UNCHANGED <<store, mcache>>
       ELSE /\ resp' = [Resp("ConfirmDelete", "cancelado") EXCEPT
                           !.valor = No,
                           !.titulo = Get(session, "delete_book_title", <<>>)]
            /\ session' = SinConfirmacion(session)
            /\ UNCHANGED <<store, mcache>>

NextEliminar ==
    \/ Avanza(InstantesConsultas)
    \/ \E u \in Users, t \in {T_ab, T_a} : add_book(u, t, <<>>, <<>>)
    \/ \E u \in Users, i \in 1..MaxIds : create_loan(u, <<>>, i, <<>>)
    \/ \E u \in Users, t \in {<<>>, T_ab, T_des} : DeleteBookIntentHandler(u, t)
    \/ \E u \in Users, yes \in BOOLEAN : ConfirmDeleteHandler(u, yes)

SpecEliminar == InitAdaptador /\ [][NextEliminar]_vars

----------------------------------------------------------------------------
(* adapters/s3_adapter.py, factories/service_factory.py DatabaseManager and *)
(* handlers/launch_handler.py.  They reach the data adapter directly, not   *)
(* through the hooks of the repositories.                                   *)

\* what the read of the persistent store did in the turn, kept in resp.valor
LecturaFallida == <<"f", "a", "l", "l", "a">>
LecturaHecha == <<"l", "e", "í", "d", "o">>

\* S3DataAdapter.get_attributes: its except clause answers a failed read
\* with the initial structure
S3DataAdapter_get_attributes(st, u, falla_lectura) ==
    IF falla_lectura THEN initial_data
    ELSE IF st[u] = <<>> THEN initial_data
    ELSE st[u][1]

\* the static DatabaseManager.get_user_data; the adapter never hands it an
\* empty dict, so its own branch for one is not taken
DatabaseManager_get_user_data(st, u, falla_lectura) ==
    S3DataAdapter_get_attributes(st, u, falla_lectura)

\* the static DatabaseManager.save_user_data when save_attributes succeeds
DatabaseManager_save_user_data(S, u, data) ==
    [st |-> [S.st EXCEPT ![u] = <<data>>],
     mc |-> MemoryCacheService_set(S.mc, CacheKey("user_data", u), data, 3600)]

\* LaunchRequestHandler.handle; the read and the write of the store each
\* succeed or fail
LaunchRequestHandler(u, falla_lectura, falla_escritura) ==
    LET valor == IF falla_lectura THEN LecturaFallida ELSE LecturaHecha
        user_data == DatabaseManager_get_user_data(store, u, falla_lectura)
    IN /\ session' = SinSesion
       /\ IF falla_escritura
          THEN /\ resp' = [Resp("LaunchRequest", "error") EXCEPT
                              !.valor = valor]
               /\ UNCHANGED <<store, mcache>>
          ELSE \E g \in {DatabaseManager_save_user_data(Estado0, u,
                                                        user_data)} :
               \E b \in {get_all_books_desde(g, u)} :
               \E al \in {LoanService_get_active_loans(b, u)} :
                  Termina(al, [Resp("LaunchRequest", "ok") EXCEPT
                                  !.valor = valor,
                                  !.total = Len(b.val),
                                  !.prestados = IdsDeLista(al.val)])
       /\ UNCHANGED <<cache, now, nextId, backend>>

NextArranque ==
    \/ Avanza(InstantesConsultas)
    \/ \E u \in Users, t \in {T_ab, T_a} : add_book(u, t, <<>>, <<>>)
    \/ \E u \in Users, i \in 1..MaxIds : create_loan(u, <<>>, i, <<>>)
    \/ \E u \in Users, fl \in BOOLEAN, fe \in BOOLEAN :
          LaunchRequestHandler(u, fl, fe)

SpecArranque == InitAdaptador /\ [][NextArranque]_vars

----------------------------------------------------------------------------
(* Two users of the same process: adapters/cache_adapter.py clear_all,      *)
(* ServiceFactory.reset_cache and LimpiarCacheIntentHandler of              *)
(* handlers/search_and_query_handlers.py                                     *)

Usuarios == {"u1", "u2"}

\* MemoryCacheService.clear_all: self._cache.clear()
MemoryCacheService_clear_all(mc) == [k \in DOMAIN mc |-> <<>>]

\* ServiceFactory.reset_cache; the repositories it drops hold no data
ServiceFactory_reset_cache(mc) == MemoryCacheService_clear_all(mc)

\* LimpiarCacheIntentHandler.handle
LimpiarCacheIntentHandler(u) ==
    /\ session' = SinSesion
    /\ \E b \in {get_all_books_desde(
                    [st |-> store, mc |-> ServiceFactory_reset_cache(mcache)],
                    u)} :
       \E al \in {LoanService_get_active_loans(b, u)} :
          Termina(al, [Resp("LimpiarCacheIntent", "ok") EXCEPT
                          !.total = Len(b.val),
                          !.prestados = IdsDeLista(al.val)])
    /\ UNCHANGED <<cache, now, nextId, backend>>

\* the operations a request of user u starts
OperacionDe(u) ==
    \/ \E fl \in BOOLEAN, fe \in BOOLEAN : LaunchRequestHandler(u, fl, fe)
    \/ \E t \in {T_ab, T_a} : add_book(u, t, <<>>, <<>>)
    \/ GetAllBooks(u)
    \/ get_active_loans(u)
    \/ ListarLibrosIntentHandler(u, "")
    \/ LimpiarCacheIntentHandler(u)

InitUsuarios ==
    /\ store = [u \in Usuarios |-> <<>>]
    /\ cache = [u \in Usuarios |-> <<>>]
    /\ mcache = [k \in {CacheKey(p, u) : p \in {"books", "user_data"},
                                         u \in Usuarios} |-> <<>>]
    /\ session = SinSesion
    /\ now = 0
    /\ nextId = 1
    /\ backend = "stub"
    /\ resp = Resp("Init", "ok")

NextUsuarios ==
    \/ Avanza({0, BookRepository_cache_ttl + 1})
    \/ \E u \in Usuarios : OperacionDe(u)

SpecUsuarios == InitUsuarios /\ [][NextUsuarios]_vars

----------------------------------------------------------------------------
(* lambda_function.py: the order in which the handlers are registered.  The *)
(* skill builder hands a request to the first registered handler whose      *)
(* can_handle accepts it.                                                   *)

\* MostrarOpcionesIntentHandler.handle: reads the record and lists the menu
MostrarOpcionesIntentHandler(u) ==
    /\ Leido(u, get_user_data(u))
    /\ resp' = [Resp("MostrarOpciones", "opciones") EXCEPT
                   !.total = Len(get_user_data(u).libros_disponibles)]
    /\ UNCHANGED <<mcache, session, now, nextId, backend>>

IntentsDelTurno ==
    {"MostrarOpcionesIntent", "AgregarLibroIntent", "ListarLibrosIntent",
     "PrestarLibroIntent", "RespuestaGeneralIntent", "AMAZON.CancelIntent"}

\* the handler that takes a request with the intent and the value of its
\* first filled slot: MostrarOpcionesIntentHandler is registered first, then
\* ContinuarAgregarHandler, whose can_handle is the guard Agregando, then
\* AgregarLibroIntentHandler and the others, which it leaves the requests
\* that arrive while no book is being added
lambda_handler(u, intent_name, valor) ==
    \/ /\ intent_name = "MostrarOpcionesIntent"
       /\ MostrarOpcionesIntentHandler(u)
    \/ /\ intent_name \notin {"MostrarOpcionesIntent", "AgregarLibroIntent",
                              "AMAZON.CancelIntent"}
       /\ ContinuarAgregarHandler(u, intent_name, valor)
    \/ /\ intent_name = "AgregarLibroIntent"
       /\ AgregarLibroIntentHandler(u, valor, <<>>, <<>>)
    \/ /\ intent_name = "ListarLibrosIntent"
       /\ ListarLibrosIntentHandler(u, "")
    \/ /\ intent_name = "PrestarLibroIntent"
       /\ PrestarLibroIntentHandler(u, valor, <<>>)
    \/ /\ intent_name = "AMAZON.CancelIntent"
       /\ CancelOrStopIntentHandler

NextTurnos ==
    \E u \in Users, i \in IntentsDelTurno, v \in {<<>>, T_ab, NoSe} :
       lambda_handler(u, i, v)

SpecTurnos == Init /\ [][NextTurnos]_vars

\* The turns of a session that a Cancel or Stop can interrupt, over a library
\* of more than one page: the dialogue that adds a book and the listing with
\* its pages.
NextCancelar ==
    \/ \E u \in Users, v \in {<<>>, T_ab} :
          AgregarLibroIntentHandler(u, v, <<>>, <<>>)
    \/ \E u \in Users, v \in {T_ab, V_x} :
          ContinuarAgregarHandler(u, "RespuestaGeneralIntent", v)
    \/ \E u \in Users : ListarLibrosIntentHandler(u, "")
    \/ \E u \in Users : SiguientePaginaIntentHandler(u)
    \/ CancelOrStopIntentHandler

SpecCancelar == InitListado /\ [][NextCancelar]_vars

----------------------------------------------------------------------------
(* helpers/utils.py: PaginationHelper, with the page size that              *)
(* handlers/list_books_handler.py gives it.                                 *)

items_per_page == 10

\* the longest list paginated and the largest page asked for
MaxLista == 22
MaxPagina == 4

\* PaginationHelper.paginate: the dict it returns
PaginationHelper_paginate(items, page_arg) ==
    LET total_items == Len(items)
        total_pages == (total_items + items_per_page - 1) \div items_per_page
        page == IF page_arg < 0 THEN 0
                ELSE IF page_arg >= total_pages /\ total_pages > 0
                THEN total_pages - 1
                ELSE page_arg
        start_index == page * items_per_page
        end_index == IF start_index + items_per_page < total_items
                     THEN start_index + items_per_page ELSE total_items
        current_items == IF items # <<>>
                         THEN Slice(items, start_index, end_index)
                         ELSE <<>>
    IN [items |-> current_items,
        current_page |-> page,
        total_pages |-> total_pages,
        total_items |-> total_items,
        has_next |-> page < total_pages - 1,
        has_previous |-> page > 0,
        start_index |-> start_index,
        end_index |-> end_index,
        items_in_page |-> Len(current_items)]

\* a call of paginate on the books of the user with a page number; the reply
\* keeps the page asked for in id and the dict returned in valor
paginate(u, page) ==
    /\ resp' = [Resp("paginate", "ok") EXCEPT
                   !.id = page,
                   !.valor = PaginationHelper_paginate(
                                store[u][1].libros_disponibles, page)]
    /\ UNCHANGED <<store, cache, mcache, session, now, nextId, backend>>

\* libraries of 0 to MaxLista books
InitPaginar ==
    /\ \E n \in 0..MaxLista :
          store = [u \in Users |->
                     <<[libros_disponibles |-> [i \in 1..n |-> LibroListado(i)],
                        prestamos_activos |-> <<>>,
                        historial_prestamos |-> <<>>]>>]
    /\ cache = [u \in Users |-> <<>>]
    /\ mcache = [k \in CacheKeys |-> <<>>]
    /\ session = SinSesion
    /\ now = 0
    /\ nextId = 1
    /\ backend = "stub"
    /\ resp = Resp("Init", "ok")

NextPaginar == \E u \in Users, page \in (0 - 2)..MaxPagina : paginate(u, page)

SpecPaginar == InitPaginar /\ [][NextPaginar]_vars

----------------------------------------------------------------------------
(* Properties *)

Registro(u) == DatosEnAdaptador(store, u)

PrestamosDe(u, libro_id) ==
    {j \in 1..Len(Registro(u).prestamos_activos) :
        Registro(u).prestamos_activos[j].libro_id = libro_id}

C3_SegundaAltaDuplicada ==
    [][(/\ resp.handler = "add_book" /\ resp.kind = "ok"
        /\ resp'.handler = "add_book" /\ resp'.titulo # <<>>
        /\ Strip(Lower(resp'.titulo)) = Strip(Lower(resp.titulo)))
          => resp'.kind = "duplicado"]_vars

\* C4: a user never has more than max_loans_per_user (10) loans in the
\* active-loan list, on every path that creates loans.
C4_LimiteDePrestamos ==
    \A u \in Users :
        Len(Registro(u).prestamos_activos) <= max_loans_per_user

Devoluciones == {"DevolverLibro", "return_loan"}

IdsDe(seq) == {seq[j].id : j \in 1..Len(seq)}

\* C5: a return that succeeds leaves the loan absent from the active-loan
\* list, present in the history with estado "devuelto", and its book
\* "disponible"; a second return of the same loan id right after it is
\* answered not found and changes nothing in the record.
C5_DevolverCierraElPrestamo ==
    [][/\ (resp'.handler \in Devoluciones /\ resp'.kind = "ok")
            => \A u \in Users :
                  /\ resp'.id \notin IdsDe(Registro(u)'.prestamos_activos)
                  /\ \E j \in 1..Len(Registro(u)'.historial_prestamos) :
                        LET h == Registro(u)'.historial_prestamos[j]
                        IN /\ h.id = resp'.id
                           /\ h.estado = "devuelto"
                           /\ \A i \in 1..Len(Registro(u)'.libros_disponibles) :
                                 LET l == Registro(u)'.libros_disponibles[i]
                                 IN l.id = h.libro_id => l.estado = "disponible"
       /\ (/\ resp.handler \in Devoluciones /\ resp.kind = "ok"
           /\ resp'.handler \in Devoluciones /\ resp'.id = resp.id)
            => /\ resp'.kind \in {"no_encontrado", "sin_prestamos"}
               /\ \A u \in Users : Registro(u)' = Registro(u)]_vars

\* a return request for a loan that is already in the history was refused
C5_SegundaDevolucionRechazada ==
    /\ resp.handler \in Devoluciones
    /\ resp.kind \in {"no_encontrado", "sin_prestamos"}
    /\ \E u \in Users : resp.id \in IdsDe(Registro(u).historial_prestamos)

Esperando(s) == Get(s, "esperando", "")

NoSeDichos == {NoSe, NoSe_sin, NoLoSe, NoLoSe_sin}

LibrosDe(u) == Registro(u).libros_disponibles

ListaFiltrada(u, filtro) ==
    LET Prestado(b) == PrestamosDe(u, b.id) # {}
        Disponible(b) == ~Prestado(b)
    IN IF filtro = "prestados" THEN SelectSeq(LibrosDe(u), Prestado)
       ELSE IF filtro = "disponibles" THEN SelectSeq(LibrosDe(u), Disponible)
       ELSE LibrosDe(u)

IdsEntre(seq, desde, hasta) == [i \in 1..(hasta - desde + 1) |-> seq[desde + i - 1].id]

Listando(s) == Get(s, "listando_libros", FALSE)

C10_EscrituraSinEntradaEnCache ==
    [][\A u \in Users :
        Registro(u)' # Registro(u)
            => /\ cache'[u] = <<>>
               /\ mcache'[CacheKey("books", u)] = <<>>
               /\ mcache'[CacheKey("user_data", u)] = <<>>]_vars

\* C11: a read through the repositories that misses the cache leaves the
\* record of the persistent attributes stored in the cache of each repository
\* with an expiry 3600 seconds ahead, so that the read that follows at once is
\* served from the cache: after get_all_books both the book repository's and
\* the loan repository's cache key hold the user's record.
C11_LecturaSiembraCache ==
    [][resp'.handler = "get_all_books"
         => \A u \in Users : \A p \in {"books", "user_data"} :
               LET e == mcache'[CacheKey(p, u)]
               IN /\ e # <<>>
                  /\ e[1].data = Registro(u)
                  /\ e[1].expire_at <= now + BookRepository_cache_ttl
                  /\ now <= e[1].expire_at]_vars

LibrosQueCoinciden(u, title) ==
    {i \in 1..Len(LibrosDe(u)) :
        coincide_titulo(Strip(LibrosDe(u)[i].titulo), Strip(title))}

C15_AltaAgregaUnLibro ==
    [][(resp'.handler = "add_book" /\ resp'.kind = "ok")
         => \A u \in Users :
               /\ Len(LibrosDe(u)') = Len(LibrosDe(u)) + 1
               /\ SubSeq(LibrosDe(u)', 1, Len(LibrosDe(u))) = LibrosDe(u)
               /\ LET l == LibrosDe(u)'[Len(LibrosDe(u)')]
                  IN /\ l.id = resp'.id
                     /\ l.titulo = resp'.titulo
                     /\ l.estado = "disponible"
                     /\ l.total_prestamos = 0
               /\ Registro(u)'.prestamos_activos = Registro(u).prestamos_activos
               /\ Registro(u)'.historial_prestamos
                     = Registro(u).historial_prestamos]_vars

Finales == {"ok", "duplicado", "error"}

\* C16: the turn that completes the category step, the one in which the book
\* is handed over to be saved, always ends with an empty session: no flow
\* flag, awaited field, collected field or page is left, whether the book was
\* added, was a duplicate or could not be saved.
C16_SesionVaciaAlTerminar ==
    [][(/\ resp'.handler \in {"ContinuarAgregar", "AgregarLibro"}
        /\ resp'.kind \in Finales)
          => DOMAIN session' = {}]_vars

\* the dialogue ended on a title the library already holds
C16_DuplicadoConSesionVacia ==
    /\ resp.handler = "ContinuarAgregar" /\ resp.kind = "duplicado"
    /\ DOMAIN session = {}
    /\ \E u \in Users : Duplicado(LibrosDe(u), resp.titulo)

\* the replies that ask for a field
Pide(campo) ==
    CASE campo = "titulo" -> {"pedir_titulo", "repetir_titulo"}
      [] campo = "autor" -> {"pedir_autor", "repetir_autor"}
      [] campo = "tipo" -> {"pedir_tipo", "repetir_tipo"}
      [] OTHER -> {}

C18_SinValorNoAvanza ==
    [][(/\ Agregando
        /\ Esperando(session) \in {"titulo", "autor", "tipo"}
        /\ resp'.handler = "ContinuarAgregar"
        /\ resp'.valor = <<>>)
          => /\ session' = session
             /\ resp'.kind \in Pide(Esperando(session))
             /\ \A u \in Users : LibrosDe(u)' = LibrosDe(u)]_vars

Recogidos == {"titulo_temp", "autor_temp", "tipo_temp"}

\* C19: an answer that fails validation while the book's fields are being
\* collected (a title longer than 200 characters, an author longer than 100)
\* is answered by asking again for the field that was awaited, and the
\* awaited field and the fields collected so far stay in the session.
C19_ValidacionConservaCampos ==
    [][(/\ Agregando
        /\ resp'.kind \in {"validacion_titulo", "validacion_autor",
                           "validacion_tipo", "validacion_reinicio"})
          => /\ Get(session', "agregando_libro", FALSE)
             /\ Esperando(session') = Esperando(session)
             /\ resp'.kind = Validacion(Esperando(session))
             /\ \A k \in Recogidos \cap DOMAIN session :
                   k \in DOMAIN session' /\ session'[k] = session[k]]_vars

C21_SiguienteMismoFiltro ==
    [][(/\ resp'.handler = "SiguientePaginaIntent"
        /\ resp'.kind \in {"pagina", "fin", "todos"})
       => LET lista == Get(session, "libros_filtrados", <<>>)
              inicio == Get(session, "pagina_libros", 0) * LIBROS_POR_PAGINA
          IN resp'.mostrados =
                Slice(lista, inicio, fin_de_pagina(inicio, Len(lista)))]_vars

\* C22: a list request whose filtered result has at most ten books shows all
\* of them in one reply and leaves the session with page 0 and the listing
\* flag off, also when a paginated listing was in progress.
C22_ListaCortaLimpiaPaginacion ==
    [][(/\ resp'.handler = "ListarLibrosIntent"
        /\ resp'.kind \in {"todos", "vacio"})
       => /\ Len(resp'.mostrados) = resp'.total
          /\ Get(session', "pagina_libros", 0) = 0
          /\ ~Get(session', "listando_libros", FALSE)]_vars

C25_CamposNoVacios ==
    \A u \in Users :
       \A i \in 1..Len(LibrosDe(u)) :
          /\ LibrosDe(u)[i].titulo # <<>>
          /\ LibrosDe(u)[i].autor # <<>>
          /\ LibrosDe(u)[i].tipo # <<>>

\* the book that a delete turn is asked to confirm, 0 if none
PorConfirmar == Get(session, "confirming_delete", 0)

\* the turn is taken as the user's confirmation of the pending deletion
TurnoDeConfirmacion ==
    \/ resp'.handler = "ConfirmDelete" /\ resp'.valor = Si
    \/ /\ resp'.handler = "EliminarLibro"
       /\ resp'.kind \in {"eliminado", "no_eliminado"}

Guardado(st, u) == IF st[u] = <<>> THEN initial_data ELSE st[u][1]

C28_FalloDeLecturaNoBorra ==
    [][\A u \in Users :
          (resp'.handler = "LaunchRequest" /\ resp'.valor = LecturaFallida)
          => /\ resp'.kind = "error"
             /\ Guardado(store', u) = Guardado(store, u)]_vars

\* C30: an operation performed for one user changes neither the persistent
\* record nor a cache entry of another user.
Ajeno(u) ==
    \A v \in Usuarios \ {u} :
       /\ store'[v] = store[v]
       /\ cache'[v] = cache[v]
       /\ \A p \in {"books", "user_data"} :
             mcache'[CacheKey(p, v)] = mcache[CacheKey(p, v)]

C30_SoloLoDelUsuario ==
    [][\A u \in Usuarios : OperacionDe(u) => Ajeno(u)]_vars

\* C31: a turn that answers the title prompt or the author prompt leaves the
\* persistent record of the user (books, active loans, history) as it was,
\* and a turn of the dialogue adds a book only when it answers the category
\* prompt.
C31_SoloElTipoGuarda ==
    [][resp'.handler = "ContinuarAgregar"
       => /\ Esperando(session) \in {"titulo", "autor"}
             => \A u \in Users : Registro(u)' = Registro(u)
          /\ (\E u \in Users : LibrosDe(u)' # LibrosDe(u))
             => Esperando(session) = "tipo"]_vars

\* an answer to the author prompt was taken while the user already had a
\* book stored, and the record did not change
C31_AutorConLibroGuardado ==
    /\ resp.handler = "ContinuarAgregar" /\ resp.kind = "pedir_tipo"
    /\ Esperando(session) = "tipo"
    /\ \E u \in Users : LibrosDe(u) # <<>>

\* C32: an AgregarLibro turn knows a field when its slot is filled or the
\* session holds it; it asks for the first unknown field in the order title,
\* author, category and leaves esperando at that field, and it adds the book
\* (or finds it a duplicate) in the same turn exactly when the three fields
\* are known.
Conocido(slot, clave) ==
    In(slot, resp'.valor) \/ Get(session, clave, <<>>) # <<>>

PrimerDesconocido ==
    IF ~Conocido(T_ab, "titulo_temp") THEN "titulo"
    ELSE IF ~Conocido(V_x, "autor_temp") THEN "autor"
    ELSE IF ~Conocido(V_n, "tipo_temp") THEN "tipo"
    ELSE ""

C32_PideElPrimerDesconocido ==
    [][resp'.handler = "AgregarLibro"
       => IF PrimerDesconocido = ""
          THEN /\ resp'.kind \in {"ok", "duplicado"}
               /\ session' = SinSesion
          ELSE /\ resp'.kind \in Pide(PrimerDesconocido)
               /\ Esperando(session') = PrimerDesconocido
               /\ Get(session', "agregando_libro", FALSE)
               /\ store' = store]_vars

\* an AgregarLibro turn that brought only the category while the session held
\* title and author, and added the book
C32_CompletaConLaSesion ==
    /\ resp.handler = "AgregarLibro" /\ resp.kind = "ok"
    /\ resp.valor = V_n

\* C33: while agregando_libro is set, a turn with an intent other than
\* AgregarLibroIntent and Cancel is taken by ContinuarAgregarHandler and not
\* by the handler of that intent.
C33_ContinuarIntercepta ==
    [][\A u \in Users, v \in {<<>>, T_ab, NoSe} :
       \A i \in IntentsDelTurno \ {"AgregarLibroIntent", "AMAZON.CancelIntent"} :
          (Agregando /\ lambda_handler(u, i, v))
          => resp'.handler = "ContinuarAgregar"]_vars

\* C34: a Cancel or Stop turn taken while a book is being added or a listing
\* is being paged leaves the session empty and the stored record as it was,
\* and an AgregarLibro turn without slots that follows it asks for the title.
C34_CancelarVaciaLaSesion ==
    [][/\ (/\ Agregando \/ Listando(session)
           /\ resp'.handler = "CancelOrStop")
          => /\ session' = SinSesion
             /\ store' = store
       /\ \A u \in Users :
             (/\ resp.handler = "CancelOrStop"
              /\ AgregarLibroIntentHandler(u, <<>>, <<>>, <<>>))
             => /\ resp'.kind \in Pide("titulo")
                /\ Esperando(session') = "titulo"
                /\ store' = store]_vars

\* a Cancel after the record was read, which the turns before it did
C34_CanceladoTrasUnTurno ==
    /\ resp.handler = "CancelOrStop"
    /\ session = SinSesion
    /\ \E u \in Users : cache[u] # <<>>

\* C35: while the session waits for the author it holds a title that is not
\* empty, while it waits for the type it holds titulo_temp and autor_temp,
\* and it holds esperando only together with agregando_libro.
C35_EsperandoConLoAnterior ==
    /\ Esperando(session) = "autor"
       => Get(session, "titulo_temp", <<>>) # <<>>
    /\ Esperando(session) = "tipo"
       => /\ Get(session, "titulo_temp", <<>>) # <<>>
          /\ "autor_temp" \in DOMAIN session
    /\ "esperando" \in DOMAIN session => Agregando

\* the session waits for the type after the author prompt was answered with
\* "no sé"
C35_EsperaTipoTrasNoSe ==
    /\ Esperando(session) = "tipo"
    /\ Agregando
    /\ resp.handler = "ContinuarAgregar"
    /\ Get(session, "titulo_temp", <<>>) = T_ab
    /\ Get(session, "autor_temp", <<>>) = Desconocido

\* C36: a loan of the stored record stays in exactly one of prestamos_activos
\* and historial_prestamos from then on; historial_prestamos only grows, and
\* a loan in it is never changed nor active again.
EnActivos(st, u) == IdsDe(Guardado(st, u).prestamos_activos)

EnHistorial(st, u) == IdsDe(Guardado(st, u).historial_prestamos)

C38_ListarEmpiezaEnLaPrimera ==
    [][(/\ resp'.handler = "ListarLibrosIntent"
        /\ resp'.kind \in {"pagina", "fin", "todos"})
       => resp'.desde = 1]_vars

\* C39: whenever _CACHE holds an unexpired record for a user, its books and
\* its loans are those of the user's persistent attributes.
C39_CacheIgualAlAlmacen ==
    \A u \in Users :
       _cache_get(u) # <<>>
       => /\ _cache_get(u)[1].libros_disponibles
                = Guardado(store, u).libros_disponibles
          /\ _cache_get(u)[1].prestamos_activos
                = Guardado(store, u).prestamos_activos
          /\ _cache_get(u)[1].historial_prestamos
                = Guardado(store, u).historial_prestamos

\* C40: for every list and every page number, paginate returns
\* 0 <= start_index <= end_index <= total_items, the items of the list from
\* start_index up to end_index, their number as items_in_page, and has_next
\* exactly when items remain after end_index.
C40_PaginaBienFormada ==
    resp.handler = "paginate"
    => \A u \in Users :
          LET lista == Guardado(store, u).libros_disponibles
              p == resp.valor
          IN /\ 0 <= p.start_index
             /\ p.start_index <= p.end_index
             /\ p.end_index <= p.total_items
             /\ p.total_items = Len(lista)
             /\ p.items = [i \in 1..(p.end_index - p.start_index) |->
                              lista[p.start_index + i]]
             /\ p.items_in_page = p.end_index - p.start_index
             /\ p.has_next <=> p.end_index < p.total_items


====
